---- MODULE Spec2Model ----
(***************************************************************************)
(* The session layer of libultrahdr (lib/src/ultrahdr_api.cpp): an encoder *)
(* or a decoder handle, its configuration calls, uhdr_encode(),            *)
(* uhdr_dec_probe(), uhdr_decode(), the effects pipelines and reset.       *)
(*                                                                         *)
(* One handle is modelled at a time (kind says which); all calls are made  *)
(* on that live handle, so the "received nullptr for uhdr codec instance"  *)
(* branches are not taken.  std::map members are functions whose DOMAIN is *)
(* the set of keys present; a unique_ptr is a sequence of length 0 (null)  *)
(* or 1.  The JPEG/gain-map codec, the converters and the editor helpers   *)
(* are external: their results are inputs of the actions.                  *)
(***************************************************************************)
EXTENDS Integers, Sequences, FiniteSets, TLC

VARIABLES
  kind,   \* "enc" or "dec": which handle uhdr_create_* returned
  enc,    \* the fields of uhdr_encoder_private
  dec,    \* the fields of uhdr_decoder_private
  call,   \* the last API call: its name, its arguments and what it returned
  codec,  \* the codec invocations made by the last API call, in order
  fx,     \* the effects applied by the last API call: one entry per effect tried
  latched \* per sealing operation, the first error it returned since the last reset

vars == <<kind, enc, dec, call, codec, fx, latched>>

----------------------------------------------------------------------------
(* Enumerations of ultrahdr_api.h, by name.                                *)

UHDR_CODEC_OK == "UHDR_CODEC_OK"
UHDR_CODEC_INVALID_PARAM == "UHDR_CODEC_INVALID_PARAM"
UHDR_CODEC_INVALID_OPERATION == "UHDR_CODEC_INVALID_OPERATION"
UHDR_CODEC_UNSUPPORTED_FEATURE == "UHDR_CODEC_UNSUPPORTED_FEATURE"
UHDR_CODEC_MEM_ERROR == "UHDR_CODEC_MEM_ERROR"
UHDR_CODEC_UNKNOWN_ERROR == "UHDR_CODEC_UNKNOWN_ERROR"

UHDR_HDR_IMG == "UHDR_HDR_IMG"
UHDR_SDR_IMG == "UHDR_SDR_IMG"
UHDR_BASE_IMG == "UHDR_BASE_IMG"
UHDR_GAIN_MAP_IMG == "UHDR_GAIN_MAP_IMG"

UHDR_IMG_FMT_24bppYCbCrP010 == "UHDR_IMG_FMT_24bppYCbCrP010"
UHDR_IMG_FMT_12bppYCbCr420 == "UHDR_IMG_FMT_12bppYCbCr420"
UHDR_IMG_FMT_8bppYCbCr400 == "UHDR_IMG_FMT_8bppYCbCr400"
UHDR_IMG_FMT_32bppRGBA8888 == "UHDR_IMG_FMT_32bppRGBA8888"
UHDR_IMG_FMT_64bppRGBAHalfFloat == "UHDR_IMG_FMT_64bppRGBAHalfFloat"
UHDR_IMG_FMT_32bppRGBA1010102 == "UHDR_IMG_FMT_32bppRGBA1010102"

UHDR_CG_UNSPECIFIED == "UHDR_CG_UNSPECIFIED"
UHDR_CG_BT_709 == "UHDR_CG_BT_709"
UHDR_CG_DISPLAY_P3 == "UHDR_CG_DISPLAY_P3"
UHDR_CG_BT_2100 == "UHDR_CG_BT_2100"

UHDR_CT_UNSPECIFIED == "UHDR_CT_UNSPECIFIED"
UHDR_CT_LINEAR == "UHDR_CT_LINEAR"
UHDR_CT_HLG == "UHDR_CT_HLG"
UHDR_CT_PQ == "UHDR_CT_PQ"
UHDR_CT_SRGB == "UHDR_CT_SRGB"

UHDR_CR_UNSPECIFIED == "UHDR_CR_UNSPECIFIED"

UHDR_CODEC_JPG == "UHDR_CODEC_JPG"

(* ultrahdr::status_t values the codec can hand back.                      *)
JPEGR_NO_ERROR == "JPEGR_NO_ERROR"
ERROR_JPEGR_RESOLUTION_MISMATCH == "ERROR_JPEGR_RESOLUTION_MISMATCH"
ERROR_JPEGR_ENCODE_ERROR == "ERROR_JPEGR_ENCODE_ERROR"
ERROR_JPEGR_DECODE_ERROR == "ERROR_JPEGR_DECODE_ERROR"
ERROR_JPEGR_NO_IMAGES_FOUND == "ERROR_JPEGR_NO_IMAGES_FOUND"
ERROR_JPEGR_GAIN_MAP_IMAGE_NOT_FOUND == "ERROR_JPEGR_GAIN_MAP_IMAGE_NOT_FOUND"
ERROR_JPEGR_BUFFER_TOO_SMALL == "ERROR_JPEGR_BUFFER_TOO_SMALL"
ERROR_JPEGR_MULTIPLE_EXIFS_RECEIVED == "ERROR_JPEGR_MULTIPLE_EXIFS_RECEIVED"
ERROR_JPEGR_UNSUPPORTED_MAP_SCALE_FACTOR == "ERROR_JPEGR_UNSUPPORTED_MAP_SCALE_FACTOR"

----------------------------------------------------------------------------
(* Library constants (ultrahdr/jpegr.h, ultrahdr/ultrahdrcommon.h).        *)

kMinWidth == 8
kMinHeight == 8
kMaxWidth == 8192
kMaxHeight == 8192
kMapCompressQualityDefault == 85
kMapDimensionScaleFactorDefault == 4
kUseMultiChannelGainMapDefault == FALSE
kJpegrVersion == "1.0"


(* unsigned int values are held as two 16-bit limbs, [hi, lo], so that the *)
(* arithmetic wraps at 2^32 as the program's does.                         *)
LIMB == 65536

U32(n) == [hi |-> (n \div LIMB) % LIMB, lo |-> n % LIMB]

(* a * b mod 2^32 for 0 <= a, b < 2^31.                                    *)
U32Mul(a, b) ==
  LET al == a % LIMB
      ah == a \div LIMB
      bl == b % LIMB
      bh == b \div LIMB
      p0 == (al % 256) * bl
      p1 == (al \div 256) * bl
      t == p0 + ((p1 % 256) * 256)
  IN [hi |-> ((t \div LIMB) + (p1 \div 256) + ((ah * bl) % LIMB) + ((al * bh) % LIMB)) % LIMB,
      lo |-> t % LIMB]

(* v * k mod 2^32 for a small k.                                           *)
U32Times(v, k) ==
  [hi |-> ((v.hi * k) + ((v.lo * k) \div LIMB)) % LIMB, lo |-> (v.lo * k) % LIMB]

U32Max(v, w) == IF v.hi > w.hi \/ (v.hi = w.hi /\ v.lo >= w.lo) THEN v ELSE w

Max(a, b) == IF a >= b THEN a ELSE b
Min(a, b) == IF a <= b THEN a ELSE b

(* A parity test that lets every number through.                           *)
IsOdd_never(a) == FALSE

(* The C++ remainder a % 2 of a signed int: 0 for even a, 1 or -1 for odd. *)
IsOdd(a) == (a % 2) # 0

----------------------------------------------------------------------------
(* uhdr_error_info_t: the error code and the detail string.                *)

ErrorInfo(code, detail) == [error_code |-> code, detail |-> detail]

g_no_error == ErrorInfo(UHDR_CODEC_OK, "")

SAILED_DETAIL == "An earlier call to uhdr_encode() has switched the context from configurable state to end state. The context is no longer configurable. To reuse, call reset()"

EFFECTS_DETAIL == "image effects are not enabled for inputs with compressed intent"

(* A null unique_ptr / pointer, and a pointer to v.                        *)
NULL == <<>>
Ptr(v) == <<v>>
Deref(p) == p[1]

----------------------------------------------------------------------------
(* Images.                                                                 *)

(* uhdr_raw_image_t as a caller hands it in.  planes_* say whether the     *)
(* plane pointer is non-null; index UHDR_PLANE_U is also UHDR_PLANE_UV.    *)
RawImage(fmt, cg, ct, w, h) ==
  [fmt |-> fmt, cg |-> cg, ct |-> ct, w |-> w, h |-> h,
   planes_y |-> TRUE, planes_u |-> TRUE, planes_v |-> TRUE,
   stride_y |-> w, stride_u |-> IF fmt = UHDR_IMG_FMT_12bppYCbCr420 THEN w \div 2 ELSE w,
   stride_v |-> IF fmt = UHDR_IMG_FMT_12bppYCbCr420 THEN w \div 2 ELSE 0]

(* uhdr_raw_image_ext_t: a session-owned buffer.  contiguous says whether  *)
(* the planes still lie back to back in one allocation, as the constructor *)
(* lays them out.                                                          *)
uhdr_raw_image_ext(fmt, cg, ct, w, h) ==
  [fmt |-> fmt, cg |-> cg, ct |-> ct, w |-> w, h |-> h, contiguous |-> TRUE]

(* uhdr_compressed_image_t as a caller hands it in.                        *)
CompressedImage(data_ok, data_sz, capacity, cg) ==
  [data |-> data_ok, data_sz |-> data_sz, capacity |-> capacity,
   cg |-> cg, ct |-> UHDR_CT_UNSPECIFIED, range |-> UHDR_CR_UNSPECIFIED]

(* uhdr_compressed_image_ext_t: capacity is the size asked for, data_sz 0. *)
uhdr_compressed_image_ext(cg, ct, range, size) ==
  [cg |-> cg, ct |-> ct, range |-> range, capacity |-> size, data_sz |-> 0]

(* ultrahdr::convert_raw_input_to_ycbcr: a new owned planar copy; the RGBA *)
(* formats become the YCbCr format of the same bit depth.                  *)
convert_raw_input_to_ycbcr(img) ==
  uhdr_raw_image_ext(
    IF img.fmt = UHDR_IMG_FMT_32bppRGBA1010102 THEN UHDR_IMG_FMT_24bppYCbCrP010
    ELSE IF img.fmt = UHDR_IMG_FMT_32bppRGBA8888 THEN UHDR_IMG_FMT_12bppYCbCr420
    ELSE img.fmt,
    img.cg, img.ct, img.w, img.h)

----------------------------------------------------------------------------
(* Effects (ultrahdr/editorhelper.h).                                      *)

uhdr_rotate_effect_t(degrees) == [type |-> "rotate", m_degree |-> degrees]
uhdr_mirror_effect_t(direction) == [type |-> "mirror", m_direction |-> direction]
uhdr_crop_effect_t(left, right, top, bottom) ==
  [type |-> "crop", m_left |-> left, m_right |-> right, m_top |-> top, m_bottom |-> bottom]
uhdr_resize_effect_t(width, height) ==
  [type |-> "resize", m_width |-> width, m_height |-> height]

UHDR_MIRROR_VERTICAL == "UHDR_MIRROR_VERTICAL"
UHDR_MIRROR_HORIZONTAL == "UHDR_MIRROR_HORIZONTAL"

(* The editor helpers: rotate, mirror and resize build a new buffer, crop  *)
(* moves the plane pointers of the buffer it is given and keeps strides.   *)
apply_rotate(desc, src) ==
  IF desc.m_degree = 90 \/ desc.m_degree = 270
  THEN uhdr_raw_image_ext(src.fmt, src.cg, src.ct, src.h, src.w)
  ELSE uhdr_raw_image_ext(src.fmt, src.cg, src.ct, src.w, src.h)

apply_mirror(desc, src) == uhdr_raw_image_ext(src.fmt, src.cg, src.ct, src.w, src.h)

apply_crop(src, left, top, wd, ht) ==
  [src EXCEPT !.w = wd, !.h = ht, !.contiguous = FALSE]

apply_resize(desc, src, dst_w, dst_h) ==
  uhdr_raw_image_ext(src.fmt, src.cg, src.ct, dst_w, dst_h)

(* Which results of the helper called for one effect come back null:       *)
(* img for the image (HDR, decoded), other for its companion.              *)
NoNull == [img |-> FALSE, other |-> FALSE]

EffectDetail(it) == "encountered unknown error while applying effect"

----------------------------------------------------------------------------
(* apply_effects on a uhdr_encoder_private.                                *)

(* nulls = [at, img, other]: the helper results that come back null, for   *)
(* the effect at index at (0: none does).                                  *)
NullsAt(nulls, i) ==
  IF nulls.at = i THEN [img |-> nulls.img, other |-> nulls.other] ELSE NoNull

NoNulls == [at |-> 0, img |-> FALSE, other |-> FALSE]

(* The tail of the loop body installing the HDR result before it looks at  *)
(* the SDR one.                                                            *)
EncInstall_hdr_first(it, raw, hdr_img, sdr_img) ==
  IF hdr_img = NULL
  THEN [status |-> ErrorInfo(UHDR_CODEC_UNKNOWN_ERROR, EffectDetail(it)), raw |-> raw,
        rect |-> <<>>]
  ELSE IF UHDR_SDR_IMG \in DOMAIN raw /\ sdr_img = NULL
  THEN [status |-> ErrorInfo(UHDR_CODEC_UNKNOWN_ERROR, EffectDetail(it)),
        raw |-> (UHDR_HDR_IMG :> Deref(hdr_img)) @@ raw, rect |-> <<>>]
  ELSE [status |-> g_no_error, rect |-> <<>>,
        raw |-> IF sdr_img # NULL
                THEN (UHDR_SDR_IMG :> Deref(sdr_img)) @@ (UHDR_HDR_IMG :> Deref(hdr_img)) @@ raw
                ELSE (UHDR_HDR_IMG :> Deref(hdr_img)) @@ raw]

(* The tail of the loop body: both results must be non-null, and only then *)
(* are the map entries replaced.                                           *)
EncInstall(it, raw, hdr_img, sdr_img) ==
  IF hdr_img = NULL \/ (UHDR_SDR_IMG \in DOMAIN raw /\ sdr_img = NULL)
  THEN [status |-> ErrorInfo(UHDR_CODEC_UNKNOWN_ERROR, EffectDetail(it)), raw |-> raw,
        rect |-> <<>>]
  ELSE [status |-> g_no_error, rect |-> <<>>,
        raw |-> IF sdr_img # NULL
                THEN (UHDR_SDR_IMG :> Deref(sdr_img)) @@ (UHDR_HDR_IMG :> Deref(hdr_img)) @@ raw
                ELSE (UHDR_HDR_IMG :> Deref(hdr_img)) @@ raw]

(* The crop branch taking the rectangle as given, without clamping it to   *)
(* the HDR image.                                                          *)
EncCrop_unclamped(it, raw) ==
  LET left == it.m_left
      right == it.m_right
      crop_width == right - left
      top == it.m_top
      bottom == it.m_bottom
      crop_height == bottom - top
  IN IF crop_width <= 0 \/ IsOdd(crop_width)
     THEN [status |-> ErrorInfo(UHDR_CODEC_INVALID_PARAM, "unexpected crop dimensions. crop width is expected to be > 0 and even"),
           raw |-> raw, rect |-> <<>>]
     ELSE IF crop_height <= 0 \/ IsOdd(crop_height)
     THEN [status |-> ErrorInfo(UHDR_CODEC_INVALID_PARAM, "unexpected crop dimensions. crop height is expected to be > 0 and even"),
           raw |-> raw, rect |-> <<>>]
     ELSE [status |-> g_no_error,
           rect |-> <<[left |-> left, top |-> top, right |-> right, bottom |-> bottom]>>,
           raw |-> [k \in DOMAIN raw |->
                      IF k = UHDR_HDR_IMG \/ k = UHDR_SDR_IMG
                      THEN apply_crop(raw[k], left, top, crop_width, crop_height)
                      ELSE raw[k]]]

(* The crop branch: the rectangle is clamped to the HDR image, both        *)
(* extents must be positive and even, then both images are cropped in      *)
(* place and the loop continues.                                           *)
EncCrop(it, raw) ==
  LET hdr == raw[UHDR_HDR_IMG]
      left == Max(0, it.m_left)
      right == Min(hdr.w, it.m_right)
      crop_width == right - left
      top == Max(0, it.m_top)
      bottom == Min(hdr.h, it.m_bottom)
      crop_height == bottom - top
  IN IF crop_width <= 0 \/ IsOdd(crop_width)
     THEN [status |-> ErrorInfo(UHDR_CODEC_INVALID_PARAM, "unexpected crop dimensions. crop width is expected to be > 0 and even"),
           raw |-> raw, rect |-> <<>>]
     ELSE IF crop_height <= 0 \/ IsOdd(crop_height)
     THEN [status |-> ErrorInfo(UHDR_CODEC_INVALID_PARAM, "unexpected crop dimensions. crop height is expected to be > 0 and even"),
           raw |-> raw, rect |-> <<>>]
     ELSE [status |-> g_no_error,
           rect |-> <<[left |-> left, top |-> top, right |-> right, bottom |-> bottom]>>,
           raw |-> [k \in DOMAIN raw |->
                      IF k = UHDR_HDR_IMG \/ k = UHDR_SDR_IMG
                      THEN apply_crop(raw[k], left, top, crop_width, crop_height)
                      ELSE raw[k]]]

(* The resize branch: zero or odd destinations are refused before the      *)
(* helper is called.                                                       *)
EncResize(it, raw, nl) ==
  LET dst_w == it.m_width
      dst_h == it.m_height
  IN IF dst_w = 0 \/ dst_h = 0 \/ IsOdd(dst_w) \/ IsOdd(dst_h)
     THEN [status |-> ErrorInfo(UHDR_CODEC_INVALID_PARAM, "destination dimension cannot be zero or odd"),
           raw |-> raw, rect |-> <<>>]
     ELSE EncInstall(it, raw,
            IF nl.img THEN NULL ELSE Ptr(apply_resize(it, raw[UHDR_HDR_IMG], dst_w, dst_h)),
            IF UHDR_SDR_IMG \in DOMAIN raw /\ ~nl.other
            THEN Ptr(apply_resize(it, raw[UHDR_SDR_IMG], dst_w, dst_h)) ELSE NULL)

(* One iteration of the loop over enc->m_effects.                          *)
EncEffectStep(it, raw, nl) ==
  IF it.type = "rotate"
  THEN EncInstall(it, raw,
         IF nl.img THEN NULL ELSE Ptr(apply_rotate(it, raw[UHDR_HDR_IMG])),
         IF UHDR_SDR_IMG \in DOMAIN raw /\ ~nl.other
         THEN Ptr(apply_rotate(it, raw[UHDR_SDR_IMG])) ELSE NULL)
  ELSE IF it.type = "mirror"
  THEN EncInstall(it, raw,
         IF nl.img THEN NULL ELSE Ptr(apply_mirror(it, raw[UHDR_HDR_IMG])),
         IF UHDR_SDR_IMG \in DOMAIN raw /\ ~nl.other
         THEN Ptr(apply_mirror(it, raw[UHDR_SDR_IMG])) ELSE NULL)
  ELSE IF it.type = "crop" THEN EncCrop(it, raw)
  ELSE IF it.type = "resize" THEN EncResize(it, raw, nl)
  ELSE EncInstall(it, raw, NULL, NULL)

(* The copy made when the first effect, not the last, is a crop.           *)
EncRepairCrop_front(effects, raw) ==
  IF Len(effects) > 0 /\ effects[1].type = "crop" /\ UHDR_SDR_IMG \in DOMAIN raw
  THEN (UHDR_SDR_IMG :> convert_raw_input_to_ycbcr(raw[UHDR_SDR_IMG])) @@ raw
  ELSE raw

(* After the loop: a trailing crop leaves the SDR planes apart, so the SDR *)
(* entry is copied into a new contiguous buffer.                           *)
EncRepairCrop(effects, raw) ==
  IF Len(effects) > 0 /\ effects[Len(effects)].type = "crop" /\ UHDR_SDR_IMG \in DOMAIN raw
  THEN (UHDR_SDR_IMG :> convert_raw_input_to_ycbcr(raw[UHDR_SDR_IMG])) @@ raw
  ELSE raw

(* The loop going on to the next effect after one has failed.              *)
RECURSIVE EncEffectsFrom_past_failure(_, _, _, _, _)
EncEffectsFrom_past_failure(effects, i, raw, nulls, log) ==
  IF i > Len(effects)
  THEN [status |-> g_no_error, raw |-> EncRepairCrop(effects, raw), log |-> log]
  ELSE LET Logged(step, entry) ==
             EncEffectsFrom_past_failure(effects, i + 1, step.raw, nulls, Append(log, entry))
           Stepped(step) ==
             Logged(step, [it |-> effects[i], status |-> step.status, before |-> raw,
                           imgs |-> step.raw, rect |-> step.rect])
       IN Stepped(EncEffectStep(effects[i], raw, NullsAt(nulls, i)))

(* The loop from effect i on.  log gets one entry per effect tried: the    *)
(* effect, the status of its iteration, the raw images before and after    *)
(* it and, for a crop carried out, the rectangle handed to apply_crop.     *)
RECURSIVE EncEffectsFrom(_, _, _, _, _)
EncEffectsFrom(effects, i, raw, nulls, log) ==
  IF i > Len(effects)
  THEN [status |-> g_no_error, raw |-> EncRepairCrop(effects, raw), log |-> log]
  ELSE LET Logged(step, entry) ==
             IF step.status.error_code # UHDR_CODEC_OK
             THEN [status |-> step.status, raw |-> step.raw, log |-> Append(log, entry)]
             ELSE EncEffectsFrom(effects, i + 1, step.raw, nulls, Append(log, entry))
           Stepped(step) ==
             Logged(step, [it |-> effects[i], status |-> step.status, before |-> raw,
                           imgs |-> step.raw, rect |-> step.rect])
       IN Stepped(EncEffectStep(effects[i], raw, NullsAt(nulls, i)))

enc_apply_effects(effects, raw, nulls) == EncEffectsFrom(effects, 1, raw, nulls, <<>>)

----------------------------------------------------------------------------
(* The encoder handle.                                                     *)

(* uhdr_gainmap_metadata_t; the floats are held in tenths (10 is 1.0f).    *)
Metadata(maxb, minb, gamma, osdr, ohdr, capmin, capmax) ==
  [max_content_boost |-> maxb, min_content_boost |-> minb, gamma |-> gamma,
   offset_sdr |-> osdr, offset_hdr |-> ohdr,
   hdr_capacity_min |-> capmin, hdr_capacity_max |-> capmax]

(* new uhdr_encoder_private(): empty containers, zeroed scalars.           *)
uhdr_encoder_private ==
  [m_effects |-> <<>>,
   m_raw_images |-> <<>>,
   m_compressed_images |-> <<>>,
   m_quality |-> <<>>,
   m_exif |-> <<>>,
   m_metadata |-> Metadata(0, 0, 0, 0, 0, 0, 0),
   m_output_format |-> UHDR_CODEC_JPG,
   m_gainmap_scale_factor |-> 0,
   m_use_multi_channel_gainmap |-> FALSE,
   m_sailed |-> FALSE,
   m_compressed_output_buffer |-> NULL,
   m_encode_call_status |-> g_no_error]

(* uhdr_reset_encoder without the m_exif.clear().                          *)
uhdr_reset_encoder_keeping_exif(h) ==
  [h EXCEPT
     !.m_effects = <<>>,
     !.m_raw_images = <<>>,
     !.m_compressed_images = <<>>,
     !.m_quality = (UHDR_HDR_IMG :> 95) @@ (UHDR_SDR_IMG :> 95) @@ (UHDR_BASE_IMG :> 95)
                   @@ (UHDR_GAIN_MAP_IMG :> kMapCompressQualityDefault),
     !.m_output_format = UHDR_CODEC_JPG,
     !.m_gainmap_scale_factor = kMapDimensionScaleFactorDefault,
     !.m_use_multi_channel_gainmap = kUseMultiChannelGainMapDefault,
     !.m_sailed = FALSE,
     !.m_compressed_output_buffer = NULL,
     !.m_encode_call_status = g_no_error]

(* uhdr_reset_encoder: clear entries and restore defaults.  m_metadata is  *)
(* not among the fields it writes.                                         *)
uhdr_reset_encoder(h) ==
  [h EXCEPT
     !.m_effects = <<>>,
     !.m_raw_images = <<>>,
     !.m_compressed_images = <<>>,
     !.m_quality = (UHDR_HDR_IMG :> 95) @@ (UHDR_SDR_IMG :> 95) @@ (UHDR_BASE_IMG :> 95)
                   @@ (UHDR_GAIN_MAP_IMG :> kMapCompressQualityDefault),
     !.m_exif = <<>>,
     !.m_output_format = UHDR_CODEC_JPG,
     !.m_gainmap_scale_factor = kMapDimensionScaleFactorDefault,
     !.m_use_multi_channel_gainmap = kUseMultiChannelGainMapDefault,
     !.m_sailed = FALSE,
     !.m_compressed_output_buffer = NULL,
     !.m_encode_call_status = g_no_error]

uhdr_create_encoder == uhdr_reset_encoder(uhdr_encoder_private)

(* What a handler gives back: the status it returns and the handle after.  *)
Ret(status, h) == [status |-> status, h |-> h]

Fail(code, detail, h) == Ret(ErrorInfo(code, detail), h)

(* The m_sailed rejection shared by the guarded setters.                   *)
EncSailed(h) == Fail(UHDR_CODEC_INVALID_OPERATION, SAILED_DETAIL, h)

uhdr_enc_validate_and_set_compressed_img(h, img, intent) ==
  IF img = NULL
  THEN Fail(UHDR_CODEC_INVALID_PARAM, "received nullptr for compressed image handle", h)
  ELSE IF ~Deref(img).data
  THEN Fail(UHDR_CODEC_INVALID_PARAM, "received nullptr for compressed img->data field", h)
  ELSE IF Deref(img).capacity < Deref(img).data_sz
  THEN Fail(UHDR_CODEC_INVALID_PARAM, "img->capacity is less than img->data_sz", h)
  ELSE IF h.m_sailed THEN EncSailed(h)
  ELSE LET i == Deref(img)
           entry == [uhdr_compressed_image_ext(i.cg, i.ct, i.range, i.data_sz)
                       EXCEPT !.data_sz = i.data_sz]
       IN Ret(g_no_error,
              [h EXCEPT !.m_compressed_images = (intent :> entry) @@ h.m_compressed_images])

uhdr_enc_set_using_multi_channel_gainmap(h, use_multi_channel_gainmap) ==
  Ret(g_no_error, [h EXCEPT !.m_use_multi_channel_gainmap = use_multi_channel_gainmap])

uhdr_enc_set_gainmap_scale_factor(h, gainmap_scale_factor) ==
  Ret(g_no_error, [h EXCEPT !.m_gainmap_scale_factor = gainmap_scale_factor])

(* The argument checks of uhdr_enc_set_raw_image, in the order of the      *)
(* else-if chain; the answer is OK or the first failing check.             *)
RawImageCheck(img, intent) ==
  IF img = NULL
  THEN ErrorInfo(UHDR_CODEC_INVALID_PARAM, "received nullptr for raw image handle")
  ELSE LET i == Deref(img) IN
  IF intent # UHDR_HDR_IMG /\ intent # UHDR_SDR_IMG
  THEN ErrorInfo(UHDR_CODEC_INVALID_PARAM, "invalid intent, expects one of {UHDR_HDR_IMG, UHDR_SDR_IMG}")
  ELSE IF intent = UHDR_HDR_IMG /\ (i.fmt # UHDR_IMG_FMT_24bppYCbCrP010 /\
                                    i.fmt # UHDR_IMG_FMT_32bppRGBA1010102)
  THEN ErrorInfo(UHDR_CODEC_INVALID_PARAM, "unsupported input pixel format for hdr intent")
  ELSE IF intent = UHDR_SDR_IMG /\ (i.fmt # UHDR_IMG_FMT_12bppYCbCr420 /\
                                    i.fmt # UHDR_IMG_FMT_32bppRGBA8888)
  THEN ErrorInfo(UHDR_CODEC_INVALID_PARAM, "unsupported input pixel format for sdr intent")
  ELSE IF i.cg # UHDR_CG_BT_2100 /\ i.cg # UHDR_CG_DISPLAY_P3 /\ i.cg # UHDR_CG_BT_709
  THEN ErrorInfo(UHDR_CODEC_INVALID_PARAM, "invalid input color gamut")
  ELSE IF i.fmt = UHDR_IMG_FMT_12bppYCbCr420 /\ i.ct # UHDR_CT_SRGB
  THEN ErrorInfo(UHDR_CODEC_INVALID_PARAM, "invalid input color transfer for sdr intent image")
  ELSE IF i.fmt = UHDR_IMG_FMT_24bppYCbCrP010 /\
          (i.ct # UHDR_CT_HLG /\ i.ct # UHDR_CT_LINEAR /\ i.ct # UHDR_CT_PQ)
  THEN ErrorInfo(UHDR_CODEC_INVALID_PARAM, "invalid input color transfer for hdr intent image")
  ELSE IF IsOdd(i.w) \/ IsOdd(i.h)
  THEN ErrorInfo(UHDR_CODEC_INVALID_PARAM, "image dimensions cannot be odd")
  ELSE IF i.w < kMinWidth \/ i.h < kMinHeight
  THEN ErrorInfo(UHDR_CODEC_INVALID_PARAM, "image dimensions cannot be less than min")
  ELSE IF i.w > kMaxWidth \/ i.h > kMaxHeight
  THEN ErrorInfo(UHDR_CODEC_INVALID_PARAM, "image dimensions cannot be larger than max")
  ELSE IF i.fmt = UHDR_IMG_FMT_24bppYCbCrP010
  THEN IF ~i.planes_y \/ ~i.planes_u
       THEN ErrorInfo(UHDR_CODEC_INVALID_PARAM, "received nullptr for data field(s), luma ptr, chroma_uv ptr")
       ELSE IF i.stride_y < i.w
       THEN ErrorInfo(UHDR_CODEC_INVALID_PARAM, "luma stride must not be smaller than width")
       ELSE IF i.stride_u < i.w
       THEN ErrorInfo(UHDR_CODEC_INVALID_PARAM, "chroma_uv stride must not be smaller than width")
       ELSE g_no_error
  ELSE IF i.fmt = UHDR_IMG_FMT_12bppYCbCr420
  THEN IF ~i.planes_y \/ ~i.planes_u \/ ~i.planes_v
       THEN ErrorInfo(UHDR_CODEC_INVALID_PARAM, "received nullptr for data field(s) luma ptr, chroma_u ptr, chroma_v ptr")
       ELSE IF i.stride_y < i.w
       THEN ErrorInfo(UHDR_CODEC_INVALID_PARAM, "luma stride must not be smaller than width")
       ELSE IF i.stride_u < i.w \div 2
       THEN ErrorInfo(UHDR_CODEC_INVALID_PARAM, "chroma_u stride must not be smaller than width / 2")
       ELSE IF i.stride_v < i.w \div 2
       THEN ErrorInfo(UHDR_CODEC_INVALID_PARAM, "chroma_v stride must not be smaller than width / 2")
       ELSE g_no_error
  ELSE g_no_error

(* The resolution check with the widths left out.                          *)
RawImageMismatch_height_only(h, img, intent) ==
  \/ /\ intent = UHDR_HDR_IMG
     /\ UHDR_SDR_IMG \in DOMAIN h.m_raw_images
     /\ img.h # h.m_raw_images[UHDR_SDR_IMG].h
  \/ /\ intent = UHDR_SDR_IMG
     /\ UHDR_HDR_IMG \in DOMAIN h.m_raw_images
     /\ img.h # h.m_raw_images[UHDR_HDR_IMG].h

(* The resolution check against the raw image of the other intent.         *)
RawImageMismatch(h, img, intent) ==
  \/ /\ intent = UHDR_HDR_IMG
     /\ UHDR_SDR_IMG \in DOMAIN h.m_raw_images
     /\ (img.w # h.m_raw_images[UHDR_SDR_IMG].w \/ img.h # h.m_raw_images[UHDR_SDR_IMG].h)
  \/ /\ intent = UHDR_SDR_IMG
     /\ UHDR_HDR_IMG \in DOMAIN h.m_raw_images
     /\ (img.w # h.m_raw_images[UHDR_HDR_IMG].w \/ img.h # h.m_raw_images[UHDR_HDR_IMG].h)

(* conv_null: convert_raw_input_to_ycbcr came back with nullptr.           *)
uhdr_enc_set_raw_image(h, img, intent, conv_null) ==
  IF RawImageCheck(img, intent).error_code # UHDR_CODEC_OK
  THEN Ret(RawImageCheck(img, intent), h)
  ELSE IF RawImageMismatch(h, Deref(img), intent)
  THEN Fail(UHDR_CODEC_INVALID_PARAM, "image resolutions mismatch", h)
  ELSE IF h.m_sailed THEN EncSailed(h)
  ELSE IF conv_null
  THEN Fail(UHDR_CODEC_UNKNOWN_ERROR, "encountered unknown error during color space conversion", h)
  ELSE Ret(g_no_error,
           [h EXCEPT !.m_raw_images =
              (intent :> convert_raw_input_to_ycbcr(Deref(img))) @@ h.m_raw_images])

(* The intent check only fills a status that the return statement then     *)
(* does not use: what is returned is the helper's answer.                  *)
uhdr_enc_set_compressed_image(h, img, intent) ==
  uhdr_enc_validate_and_set_compressed_img(h, img, intent)

(* float values are counted in tenths.  NaN is the one float outside the   *)
(* ordering: the C++ comparisons <, <= with a NaN operand are false.  It   *)
(* is written as a number no finite input of the model reaches.            *)
NaN == -1000000
FLess(a, b) == a # NaN /\ b # NaN /\ a < b
FLessEq(a, b) == a # NaN /\ b # NaN /\ a <= b

(* The metadata checks of uhdr_enc_set_gainmap_image, in order.            *)
MetadataCheck(metadata) ==
  IF metadata = NULL
  THEN ErrorInfo(UHDR_CODEC_INVALID_PARAM, "received nullptr for gainmap metadata descriptor")
  ELSE LET m == Deref(metadata) IN
  IF FLess(m.max_content_boost, m.min_content_boost)
  THEN ErrorInfo(UHDR_CODEC_INVALID_PARAM, "received bad value for content boost min > max")
  ELSE IF FLessEq(m.gamma, 0)
  THEN ErrorInfo(UHDR_CODEC_INVALID_PARAM, "received bad value for gamma, expects > 0.0f")
  ELSE IF FLess(m.offset_sdr, 0)
  THEN ErrorInfo(UHDR_CODEC_INVALID_PARAM, "received bad value for offset sdr, expects to be >= 0.0f")
  ELSE IF FLess(m.offset_hdr, 0)
  THEN ErrorInfo(UHDR_CODEC_INVALID_PARAM, "received bad value for offset hdr, expects to be >= 0.0f")
  ELSE IF FLess(m.hdr_capacity_max, m.hdr_capacity_min)
  THEN ErrorInfo(UHDR_CODEC_INVALID_PARAM, "received bad value for hdr capacity min > max")
  ELSE IF FLess(m.hdr_capacity_min, 10)
  THEN ErrorInfo(UHDR_CODEC_INVALID_PARAM, "received bad value for hdr capacity min, expects to be >= 1.0f")
  ELSE g_no_error

(* uhdr_enc_set_gainmap_image without the memcpy into m_metadata.          *)
uhdr_enc_set_gainmap_image_unstored(h, img, metadata) ==
  IF MetadataCheck(metadata).error_code # UHDR_CODEC_OK
  THEN Ret(MetadataCheck(metadata), h)
  ELSE uhdr_enc_validate_and_set_compressed_img(h, img, UHDR_GAIN_MAP_IMG)

uhdr_enc_set_gainmap_image(h, img, metadata) ==
  IF MetadataCheck(metadata).error_code # UHDR_CODEC_OK
  THEN Ret(MetadataCheck(metadata), h)
  ELSE LET r == uhdr_enc_validate_and_set_compressed_img(h, img, UHDR_GAIN_MAP_IMG)
       IN IF r.status.error_code # UHDR_CODEC_OK THEN r
          ELSE Ret(r.status, [r.h EXCEPT !.m_metadata = Deref(metadata)])

(* A setter that clamps the quality into [0, 100] instead of refusing it.  *)
uhdr_enc_set_quality_clamped(h, quality, intent) ==
  IF intent \notin {UHDR_HDR_IMG, UHDR_SDR_IMG, UHDR_BASE_IMG, UHDR_GAIN_MAP_IMG}
  THEN Fail(UHDR_CODEC_INVALID_PARAM, "invalid intent", h)
  ELSE IF h.m_sailed THEN EncSailed(h)
  ELSE Ret(g_no_error, [h EXCEPT !.m_quality = (intent :> Max(0, Min(100, quality))) @@ h.m_quality])

uhdr_enc_set_quality(h, quality, intent) ==
  IF quality < 0 \/ quality > 100
  THEN Fail(UHDR_CODEC_INVALID_PARAM, "invalid quality factor, expects in range [0-100]", h)
  ELSE IF intent \notin {UHDR_HDR_IMG, UHDR_SDR_IMG, UHDR_BASE_IMG, UHDR_GAIN_MAP_IMG}
  THEN Fail(UHDR_CODEC_INVALID_PARAM, "invalid intent", h)
  ELSE IF h.m_sailed THEN EncSailed(h)
  ELSE Ret(g_no_error, [h EXCEPT !.m_quality = (intent :> quality) @@ h.m_quality])

(* exif: a uhdr_mem_block_t whose bytes are the sequence exif.bytes.       *)
uhdr_enc_set_exif_data(h, exif) ==
  IF exif = NULL
  THEN Fail(UHDR_CODEC_INVALID_PARAM, "received nullptr for exif image handle", h)
  ELSE IF ~Deref(exif).data
  THEN Fail(UHDR_CODEC_INVALID_PARAM, "received nullptr for exif->data field", h)
  ELSE IF Deref(exif).capacity < Deref(exif).data_sz
  THEN Fail(UHDR_CODEC_INVALID_PARAM, "exif->capacity is less than exif->data_sz", h)
  ELSE IF h.m_sailed THEN EncSailed(h)
  ELSE Ret(g_no_error, [h EXCEPT !.m_exif = SubSeq(Deref(exif).bytes, 1, Deref(exif).data_sz)])

uhdr_enc_set_output_format(h, media_type) ==
  IF media_type # UHDR_CODEC_JPG
  THEN Fail(UHDR_CODEC_UNSUPPORTED_FEATURE, "invalid output format, expects {UHDR_CODEC_JPG}", h)
  ELSE IF h.m_sailed THEN EncSailed(h)
  ELSE Ret(g_no_error, [h EXCEPT !.m_output_format = media_type])

----------------------------------------------------------------------------
(* The enumerations of the codec and the maps to and from them.            *)

ULTRAHDR_COLORGAMUT_UNSPECIFIED == "ULTRAHDR_COLORGAMUT_UNSPECIFIED"
ULTRAHDR_COLORGAMUT_BT709 == "ULTRAHDR_COLORGAMUT_BT709"
ULTRAHDR_COLORGAMUT_P3 == "ULTRAHDR_COLORGAMUT_P3"
ULTRAHDR_COLORGAMUT_BT2100 == "ULTRAHDR_COLORGAMUT_BT2100"

ULTRAHDR_TF_UNSPECIFIED == "ULTRAHDR_TF_UNSPECIFIED"
ULTRAHDR_TF_LINEAR == "ULTRAHDR_TF_LINEAR"
ULTRAHDR_TF_HLG == "ULTRAHDR_TF_HLG"
ULTRAHDR_TF_PQ == "ULTRAHDR_TF_PQ"
ULTRAHDR_TF_SRGB == "ULTRAHDR_TF_SRGB"

map_cg_to_internal_cg(cg) ==
  CASE cg = UHDR_CG_BT_2100 -> ULTRAHDR_COLORGAMUT_BT2100
    [] cg = UHDR_CG_BT_709 -> ULTRAHDR_COLORGAMUT_BT709
    [] cg = UHDR_CG_DISPLAY_P3 -> ULTRAHDR_COLORGAMUT_P3
    [] OTHER -> ULTRAHDR_COLORGAMUT_UNSPECIFIED

map_internal_cg_to_cg(cg) ==
  CASE cg = ULTRAHDR_COLORGAMUT_BT2100 -> UHDR_CG_BT_2100
    [] cg = ULTRAHDR_COLORGAMUT_BT709 -> UHDR_CG_BT_709
    [] cg = ULTRAHDR_COLORGAMUT_P3 -> UHDR_CG_DISPLAY_P3
    [] OTHER -> UHDR_CG_UNSPECIFIED

map_ct_to_internal_ct(ct) ==
  CASE ct = UHDR_CT_HLG -> ULTRAHDR_TF_HLG
    [] ct = UHDR_CT_PQ -> ULTRAHDR_TF_PQ
    [] ct = UHDR_CT_LINEAR -> ULTRAHDR_TF_LINEAR
    [] ct = UHDR_CT_SRGB -> ULTRAHDR_TF_SRGB
    [] OTHER -> ULTRAHDR_TF_UNSPECIFIED

(* What is left in a uhdr_error_info_t after the codec's status is mapped. *)
map_internal_error_status_to_error_info(internal_status) ==
  CASE internal_status = JPEGR_NO_ERROR -> g_no_error
    [] internal_status = ERROR_JPEGR_RESOLUTION_MISMATCH ->
         ErrorInfo(UHDR_CODEC_INVALID_PARAM, "dimensions of sdr intent and hdr intent do not match")
    [] internal_status = ERROR_JPEGR_ENCODE_ERROR ->
         ErrorInfo(UHDR_CODEC_UNKNOWN_ERROR, "encountered unknown error during encoding")
    [] internal_status = ERROR_JPEGR_DECODE_ERROR ->
         ErrorInfo(UHDR_CODEC_UNKNOWN_ERROR, "encountered unknown error during decoding")
    [] internal_status = ERROR_JPEGR_NO_IMAGES_FOUND ->
         ErrorInfo(UHDR_CODEC_UNKNOWN_ERROR, "input uhdr image does not any valid images")
    [] internal_status = ERROR_JPEGR_GAIN_MAP_IMAGE_NOT_FOUND ->
         ErrorInfo(UHDR_CODEC_UNKNOWN_ERROR, "input uhdr image does not contain gainmap image")
    [] internal_status = ERROR_JPEGR_BUFFER_TOO_SMALL ->
         ErrorInfo(UHDR_CODEC_MEM_ERROR, "output buffer to store compressed data is too small")
    [] internal_status = ERROR_JPEGR_MULTIPLE_EXIFS_RECEIVED ->
         ErrorInfo(UHDR_CODEC_INVALID_OPERATION, "received exif from uhdr_enc_set_exif_data() while the base image intent already contains exif, unsure which one to use")
    [] internal_status = ERROR_JPEGR_UNSUPPORTED_MAP_SCALE_FACTOR ->
         ErrorInfo(UHDR_CODEC_UNSUPPORTED_FEATURE, "say base image wd to gain map image wd ratio is 'k1' and base image ht to gain map image ht ratio is 'k2', we found k1 != k2.")
    [] OTHER -> ErrorInfo(UHDR_CODEC_UNKNOWN_ERROR, "")

----------------------------------------------------------------------------
(* uhdr_encode.                                                            *)

Has(m, k) == k \in DOMAIN m

(* The input shape uhdr_encode dispatches on: 4, 0, 3, 1, 2 are the        *)
(* "api - n" branches, -1 is "resources ... are not present".              *)
(* The dispatch with the raw HDR test ahead of the BASE + GAIN_MAP test.   *)
EncApi_hdr_first(h) ==
  IF Has(h.m_raw_images, UHDR_HDR_IMG)
  THEN IF ~Has(h.m_compressed_images, UHDR_SDR_IMG) /\ ~Has(h.m_raw_images, UHDR_SDR_IMG)
       THEN 0
       ELSE IF Has(h.m_compressed_images, UHDR_SDR_IMG) /\ ~Has(h.m_raw_images, UHDR_SDR_IMG)
       THEN 3
       ELSE IF ~Has(h.m_compressed_images, UHDR_SDR_IMG) THEN 1 ELSE 2
  ELSE IF Has(h.m_compressed_images, UHDR_BASE_IMG) /\ Has(h.m_compressed_images, UHDR_GAIN_MAP_IMG)
  THEN 4
  ELSE -1

EncApi(h) ==
  IF Has(h.m_compressed_images, UHDR_BASE_IMG) /\ Has(h.m_compressed_images, UHDR_GAIN_MAP_IMG)
  THEN 4
  ELSE IF Has(h.m_raw_images, UHDR_HDR_IMG)
  THEN IF ~Has(h.m_compressed_images, UHDR_SDR_IMG) /\ ~Has(h.m_raw_images, UHDR_SDR_IMG)
       THEN 0
       ELSE IF Has(h.m_compressed_images, UHDR_SDR_IMG) /\ ~Has(h.m_raw_images, UHDR_SDR_IMG)
       THEN 3
       ELSE IF ~Has(h.m_compressed_images, UHDR_SDR_IMG) THEN 1 ELSE 2
  ELSE -1

(* The first if/else-if block: with effects configured, the shapes with a  *)
(* compressed input are refused and the raw-only shapes run the pipeline.  *)
(* stop: uhdr_encode returns here.                                         *)
(* The first block with the pipeline also run for api 2.                   *)
EncEffectsStage_api2(h, nulls) ==
  IF Len(h.m_effects) = 0 \/ EncApi(h) = -1
  THEN [h |-> h, fx |-> <<>>, stop |-> FALSE]
  ELSE IF EncApi(h) = 4 \/ EncApi(h) = 3
  THEN [h |-> [h EXCEPT !.m_encode_call_status =
                  ErrorInfo(UHDR_CODEC_INVALID_OPERATION, EFFECTS_DETAIL)],
        fx |-> <<>>, stop |-> TRUE]
  ELSE LET Edited(r) ==
             [h |-> [h EXCEPT !.m_raw_images = r.raw, !.m_encode_call_status = r.status],
              fx |-> r.log, stop |-> r.status.error_code # UHDR_CODEC_OK]
       IN Edited(enc_apply_effects(h.m_effects, h.m_raw_images, nulls))

EncEffectsStage(h, nulls) ==
  IF Len(h.m_effects) = 0 \/ EncApi(h) = -1
  THEN [h |-> h, fx |-> <<>>, stop |-> FALSE]
  ELSE IF EncApi(h) = 4 \/ EncApi(h) = 3 \/ EncApi(h) = 2
  THEN [h |-> [h EXCEPT !.m_encode_call_status =
                  ErrorInfo(UHDR_CODEC_INVALID_OPERATION, EFFECTS_DETAIL)],
        fx |-> <<>>, stop |-> TRUE]
  ELSE LET Edited(r) ==
             [h |-> [h EXCEPT !.m_raw_images = r.raw, !.m_encode_call_status = r.status],
              fx |-> r.log, stop |-> r.status.error_code # UHDR_CODEC_OK]
       IN Edited(enc_apply_effects(h.m_effects, h.m_raw_images, nulls))

(* The jpegr_uncompressed_struct built from a raw entry.                   *)
Uncompressed(img) ==
  [width |-> img.w, height |-> img.h, colorGamut |-> map_cg_to_internal_cg(img.cg),
   pixelFormat |-> img.fmt, contiguous |-> img.contiguous]

(* The jpegr_compressed_struct built from a compressed entry.              *)
Compressed(img) ==
  [length |-> img.data_sz, maxLength |-> img.data_sz,
   colorGamut |-> map_cg_to_internal_cg(img.cg)]

(* The size of the output buffer: int arithmetic for api 4, unsigned int   *)
(* arithmetic for the raw HDR branch.                                      *)
EncOutputSize(h) ==
  IF EncApi(h) = 4
  THEN U32(Max(8 * 1024, 2 * (h.m_compressed_images[UHDR_BASE_IMG].data_sz
                              + h.m_compressed_images[UHDR_GAIN_MAP_IMG].data_sz)))
  ELSE U32Max(U32(8 * 1024),
              U32Times(U32Times(U32Mul(h.m_raw_images[UHDR_HDR_IMG].w,
                                       h.m_raw_images[UHDR_HDR_IMG].h), 3), 2))

(* The call of JpegR::encodeJPEGR made for the shape: the constructor      *)
(* arguments and the arguments of the overload.                            *)
EncCodecCall(h) ==
  LET jpegr == [gainmap_scale_factor |-> h.m_gainmap_scale_factor,
                gainmap_quality |-> h.m_quality[UHDR_GAIN_MAP_IMG],
                use_multi_channel_gainmap |-> h.m_use_multi_channel_gainmap]
      exif == IF Len(h.m_exif) > 0 THEN Ptr(h.m_exif) ELSE NULL
      api == EncApi(h)
      maxLength == EncOutputSize(h)
  IN CASE api = 4 ->
            [fn |-> "encodeJPEGR", api |-> 4, jpegr |-> jpegr, maxLength |-> maxLength,
             primary_image |-> Compressed(h.m_compressed_images[UHDR_BASE_IMG]),
             gainmap_image |-> Compressed(h.m_compressed_images[UHDR_GAIN_MAP_IMG]),
             metadata |-> [version |-> kJpegrVersion,
                           maxContentBoost |-> h.m_metadata.max_content_boost,
                           minContentBoost |-> h.m_metadata.min_content_boost,
                           gamma |-> h.m_metadata.gamma,
                           offsetSdr |-> h.m_metadata.offset_sdr,
                           offsetHdr |-> h.m_metadata.offset_hdr,
                           hdrCapacityMin |-> h.m_metadata.hdr_capacity_min,
                           hdrCapacityMax |-> h.m_metadata.hdr_capacity_max]]
       [] api = 0 ->
            [fn |-> "encodeJPEGR", api |-> 0, jpegr |-> jpegr, maxLength |-> maxLength,
             p010_image |-> Uncompressed(h.m_raw_images[UHDR_HDR_IMG]),
             hdr_tf |-> map_ct_to_internal_ct(h.m_raw_images[UHDR_HDR_IMG].ct),
             quality |-> h.m_quality[UHDR_BASE_IMG], exif |-> exif]
       [] api = 3 ->
            [fn |-> "encodeJPEGR", api |-> 3, jpegr |-> jpegr, maxLength |-> maxLength,
             p010_image |-> Uncompressed(h.m_raw_images[UHDR_HDR_IMG]),
             sdr_compressed_image |-> Compressed(h.m_compressed_images[UHDR_SDR_IMG]),
             hdr_tf |-> map_ct_to_internal_ct(h.m_raw_images[UHDR_HDR_IMG].ct)]
       [] api = 1 ->
            [fn |-> "encodeJPEGR", api |-> 1, jpegr |-> jpegr, maxLength |-> maxLength,
             p010_image |-> Uncompressed(h.m_raw_images[UHDR_HDR_IMG]),
             yuv420_image |-> Uncompressed(h.m_raw_images[UHDR_SDR_IMG]),
             hdr_tf |-> map_ct_to_internal_ct(h.m_raw_images[UHDR_HDR_IMG].ct),
             quality |-> h.m_quality[UHDR_BASE_IMG], exif |-> exif]
       [] api = 2 ->
            [fn |-> "encodeJPEGR", api |-> 2, jpegr |-> jpegr, maxLength |-> maxLength,
             p010_image |-> Uncompressed(h.m_raw_images[UHDR_HDR_IMG]),
             yuv420_image |-> Uncompressed(h.m_raw_images[UHDR_SDR_IMG]),
             sdr_compressed_image |-> Compressed(h.m_compressed_images[UHDR_SDR_IMG]),
             hdr_tf |-> map_ct_to_internal_ct(h.m_raw_images[UHDR_HDR_IMG].ct)]

(* The second block: allocate the output buffer, call the codec, map its   *)
(* status into m_encode_call_status and, on OK, take over the length and   *)
(* the gamut it reports.  out = [status, length, colorGamut] is what the   *)
(* codec hands back; codec lists the invocation and its result.            *)
EncCodecStage(h, out) ==
  IF h.m_output_format # UHDR_CODEC_JPG
  THEN [h |-> h, codec |-> <<>>]
  ELSE IF EncApi(h) = -1
  THEN [h |-> [h EXCEPT !.m_encode_call_status =
                  ErrorInfo(UHDR_CODEC_INVALID_OPERATION,
                            "resources required for uhdr_encode() operation are not present")],
        codec |-> <<>>]
  ELSE LET status == map_internal_error_status_to_error_info(out.status)
           buf == uhdr_compressed_image_ext(UHDR_CG_UNSPECIFIED, UHDR_CT_UNSPECIFIED,
                                            UHDR_CR_UNSPECIFIED, EncOutputSize(h))
       IN [h |-> [h EXCEPT
                    !.m_encode_call_status = status,
                    !.m_compressed_output_buffer =
                       IF status.error_code = UHDR_CODEC_OK
                       THEN Ptr([buf EXCEPT !.data_sz = out.length,
                                            !.cg = map_internal_cg_to_cg(out.colorGamut)])
                       ELSE Ptr(buf)],
           codec |-> <<[call |-> EncCodecCall(h), result |-> out]>>]

(* uhdr_encode without the m_sailed test at its head.                      *)
uhdr_encode_unguarded(h, out, nulls) ==
  LET Run(run, log) == [status |-> run.h.m_encode_call_status, h |-> run.h,
                       codec |-> run.codec, fx |-> log]
      Staged(pre) ==
        IF pre.stop
        THEN [status |-> pre.h.m_encode_call_status, h |-> pre.h, codec |-> <<>>, fx |-> pre.fx]
        ELSE Run(EncCodecStage(pre.h, out), pre.fx)
  IN Staged(EncEffectsStage([h EXCEPT !.m_sailed = TRUE], nulls))

uhdr_encode(h, out, nulls) ==
  IF h.m_sailed
  THEN [status |-> h.m_encode_call_status, h |-> h, codec |-> <<>>, fx |-> <<>>]
  ELSE LET Run(run, log) == [status |-> run.h.m_encode_call_status, h |-> run.h,
                            codec |-> run.codec, fx |-> log]
           Staged(pre) ==
             IF pre.stop
             THEN [status |-> pre.h.m_encode_call_status, h |-> pre.h, codec |-> <<>>,
                   fx |-> pre.fx]
             ELSE Run(EncCodecStage(pre.h, out), pre.fx)
       IN Staged(EncEffectsStage([h EXCEPT !.m_sailed = TRUE], nulls))

uhdr_get_encoded_stream(h) ==
  IF ~h.m_sailed \/ h.m_encode_call_status.error_code # UHDR_CODEC_OK
  THEN NULL
  ELSE h.m_compressed_output_buffer

----------------------------------------------------------------------------
(* Effects are added to the m_effects of either handle.                    *)

uhdr_add_effect_mirror(h, direction) ==
  IF direction # UHDR_MIRROR_HORIZONTAL /\ direction # UHDR_MIRROR_VERTICAL
  THEN Fail(UHDR_CODEC_INVALID_PARAM, "unsupported direction, expects one of {UHDR_MIRROR_HORIZONTAL, UHDR_MIRROR_VERTICAL}", h)
  ELSE Ret(g_no_error, [h EXCEPT !.m_effects = Append(h.m_effects, uhdr_mirror_effect_t(direction))])

uhdr_add_effect_rotate(h, degrees) ==
  IF degrees # 90 /\ degrees # 180 /\ degrees # 270
  THEN Fail(UHDR_CODEC_INVALID_PARAM, "unsupported degrees, expects one of {90, 180, 270}", h)
  ELSE Ret(g_no_error, [h EXCEPT !.m_effects = Append(h.m_effects, uhdr_rotate_effect_t(degrees))])

uhdr_add_effect_crop(h, left, right, top, bottom) ==
  Ret(g_no_error,
      [h EXCEPT !.m_effects = Append(h.m_effects, uhdr_crop_effect_t(left, right, top, bottom))])

uhdr_add_effect_resize(h, width, height) ==
  Ret(g_no_error,
      [h EXCEPT !.m_effects = Append(h.m_effects, uhdr_resize_effect_t(width, height))])

----------------------------------------------------------------------------
(* The decoder handle.                                                     *)

FLT_MAX == "FLT_MAX"

(* What the bytes of an input hold, as the parsers of the codec report it: *)
(* info is the status of JpegR::getJPEGRInfo, xmp_ok the answer of         *)
(* getMetadataFromXMP on the gain map's XMP.                               *)
UhdrFile(info, xmp_ok, img_w, img_h, gm_w, gm_h, metadata) ==
  [info |-> info, xmp_ok |-> xmp_ok, width |-> img_w, height |-> img_h,
   gm_width |-> gm_w, gm_height |-> gm_h, metadata |-> metadata,
   exifData |-> <<1>>, iccData |-> <<2>>, xmpData |-> <<3>>, gm_xmpData |-> <<4>>]

(* A uhdr_compressed_image_t whose data are the bytes of file.             *)
UhdrImage(data_ok, data_sz, capacity, file) ==
  [data |-> data_ok, data_sz |-> data_sz, capacity |-> capacity, file |-> file,
   cg |-> UHDR_CG_UNSPECIFIED, ct |-> UHDR_CT_UNSPECIFIED, range |-> UHDR_CR_UNSPECIFIED]

(* uhdr_reset_decoder leaving m_probed as it found it.                     *)
uhdr_reset_decoder_still_probed(h) ==
  [m_effects |-> <<>>,
   m_uhdr_compressed_img |-> NULL,
   m_output_fmt |-> UHDR_IMG_FMT_64bppRGBAHalfFloat,
   m_output_ct |-> UHDR_CT_LINEAR,
   m_output_max_disp_boost |-> FLT_MAX,
   m_probed |-> (DOMAIN h # {} /\ h.m_probed),
   m_sailed |-> FALSE,
   m_decoded_img_buffer |-> NULL,
   m_gainmap_img_buffer |-> NULL,
   m_img_wd |-> 0, m_img_ht |-> 0, m_gainmap_wd |-> 0, m_gainmap_ht |-> 0,
   m_exif |-> <<>>, m_icc |-> <<>>, m_base_xmp |-> <<>>, m_gainmap_xmp |-> <<>>,
   m_metadata |-> Metadata(0, 0, 0, 0, 0, 0, 0),
   m_probe_call_status |-> g_no_error,
   m_decode_call_status |-> g_no_error]

(* new uhdr_decoder_private() followed by the writes of uhdr_reset_decoder *)
(* give the same record, so the reset is a constant.                       *)
uhdr_reset_decoder(h) ==
  [m_effects |-> <<>>,
   m_uhdr_compressed_img |-> NULL,
   m_output_fmt |-> UHDR_IMG_FMT_64bppRGBAHalfFloat,
   m_output_ct |-> UHDR_CT_LINEAR,
   m_output_max_disp_boost |-> FLT_MAX,
   m_probed |-> FALSE,
   m_sailed |-> FALSE,
   m_decoded_img_buffer |-> NULL,
   m_gainmap_img_buffer |-> NULL,
   m_img_wd |-> 0, m_img_ht |-> 0, m_gainmap_wd |-> 0, m_gainmap_ht |-> 0,
   m_exif |-> <<>>, m_icc |-> <<>>, m_base_xmp |-> <<>>, m_gainmap_xmp |-> <<>>,
   m_metadata |-> Metadata(0, 0, 0, 0, 0, 0, 0),
   m_probe_call_status |-> g_no_error,
   m_decode_call_status |-> g_no_error]

uhdr_create_decoder == uhdr_reset_decoder(<<>>)

(* The m_probed rejection shared by the decoder's setters.                 *)
DecProbed(h) ==
  Fail(UHDR_CODEC_INVALID_OPERATION,
       "An earlier call to uhdr_decode() has switched the context from configurable state to end state. The context is no longer configurable. To reuse, call reset()", h)

(* uhdr_dec_set_image with the image stored ahead of the m_probed test.    *)
uhdr_dec_set_image_early(h, img) ==
  IF img = NULL
  THEN Fail(UHDR_CODEC_INVALID_PARAM, "received nullptr for compressed image handle", h)
  ELSE LET i == Deref(img)
           h1 == [h EXCEPT !.m_uhdr_compressed_img =
                    Ptr([cg |-> i.cg, ct |-> i.ct, range |-> i.range, capacity |-> i.data_sz,
                         data_sz |-> i.data_sz, file |-> i.file])]
       IN IF h.m_probed THEN DecProbed(h1) ELSE Ret(g_no_error, h1)

uhdr_dec_set_image(h, img) ==
  IF img = NULL
  THEN Fail(UHDR_CODEC_INVALID_PARAM, "received nullptr for compressed image handle", h)
  ELSE IF ~Deref(img).data
  THEN Fail(UHDR_CODEC_INVALID_PARAM, "received nullptr for compressed img->data field", h)
  ELSE IF Deref(img).capacity < Deref(img).data_sz
  THEN Fail(UHDR_CODEC_INVALID_PARAM, "img->capacity is less than img->data_sz", h)
  ELSE IF h.m_probed THEN DecProbed(h)
  ELSE LET i == Deref(img)
       IN Ret(g_no_error,
              [h EXCEPT !.m_uhdr_compressed_img =
                 Ptr([cg |-> i.cg, ct |-> i.ct, range |-> i.range, capacity |-> i.data_sz,
                      data_sz |-> i.data_sz, file |-> i.file])])

uhdr_dec_set_out_img_format(h, fmt) ==
  IF fmt # UHDR_IMG_FMT_32bppRGBA8888 /\ fmt # UHDR_IMG_FMT_64bppRGBAHalfFloat /\
     fmt # UHDR_IMG_FMT_32bppRGBA1010102
  THEN Fail(UHDR_CODEC_INVALID_PARAM, "invalid output format", h)
  ELSE IF h.m_probed THEN DecProbed(h)
  ELSE Ret(g_no_error, [h EXCEPT !.m_output_fmt = fmt])

uhdr_dec_set_out_color_transfer(h, ct) ==
  IF ct # UHDR_CT_HLG /\ ct # UHDR_CT_PQ /\ ct # UHDR_CT_LINEAR /\ ct # UHDR_CT_SRGB
  THEN Fail(UHDR_CODEC_INVALID_PARAM, "invalid output color transfer", h)
  ELSE IF h.m_probed THEN DecProbed(h)
  ELSE Ret(g_no_error, [h EXCEPT !.m_output_ct = ct])

(* display_boost in tenths.                                                *)
uhdr_dec_set_out_max_display_boost(h, display_boost) ==
  IF FLess(display_boost, 10)
  THEN Fail(UHDR_CODEC_INVALID_PARAM, "invalid display boost, expects to be >= 1.0f}", h)
  ELSE IF h.m_probed THEN DecProbed(h)
  ELSE Ret(g_no_error, [h EXCEPT !.m_output_max_disp_boost = display_boost])

(* uhdr_dec_probe without the m_probed test at its head.                   *)
uhdr_dec_probe_unguarded(h) ==
  IF FALSE
  THEN [status |-> h.m_probe_call_status, h |-> h, parsed |-> 0]
  ELSE LET h1 == [h EXCEPT !.m_probed = TRUE] IN
  IF h1.m_uhdr_compressed_img = NULL
  THEN [status |-> ErrorInfo(UHDR_CODEC_INVALID_OPERATION, "did not receive any image for decoding"),
        h |-> [h1 EXCEPT !.m_probe_call_status =
                 ErrorInfo(UHDR_CODEC_INVALID_OPERATION, "did not receive any image for decoding")],
        parsed |-> 0]
  ELSE LET file == Deref(h1.m_uhdr_compressed_img).file
           info == map_internal_error_status_to_error_info(file.info)
           bad_xmp == ErrorInfo(UHDR_CODEC_UNKNOWN_ERROR, "encountered error while parsing metadata")
       IN IF info.error_code # UHDR_CODEC_OK
          THEN [status |-> info, h |-> [h1 EXCEPT !.m_probe_call_status = info], parsed |-> 1]
          ELSE IF ~file.xmp_ok
          THEN [status |-> bad_xmp, h |-> [h1 EXCEPT !.m_probe_call_status = bad_xmp], parsed |-> 1]
          ELSE [status |-> info,
                h |-> [h1 EXCEPT !.m_probe_call_status = info,
                                 !.m_metadata = file.metadata,
                                 !.m_img_wd = file.width, !.m_img_ht = file.height,
                                 !.m_gainmap_wd = file.gm_width, !.m_gainmap_ht = file.gm_height,
                                 !.m_exif = file.exifData, !.m_icc = file.iccData,
                                 !.m_base_xmp = file.xmpData, !.m_gainmap_xmp = file.gm_xmpData],
                parsed |-> 1]

(* A probe that marks the decoder probed only once it has found an image.  *)
uhdr_dec_probe_unmarked(h) ==
  IF h.m_probed
  THEN [status |-> h.m_probe_call_status, h |-> h, parsed |-> 0]
  ELSE IF h.m_uhdr_compressed_img = NULL
  THEN [status |-> ErrorInfo(UHDR_CODEC_INVALID_OPERATION, "did not receive any image for decoding"),
        h |-> [h EXCEPT !.m_probe_call_status =
                 ErrorInfo(UHDR_CODEC_INVALID_OPERATION, "did not receive any image for decoding")],
        parsed |-> 0]
  ELSE LET file == Deref(h.m_uhdr_compressed_img).file
           info == map_internal_error_status_to_error_info(file.info)
       IN [status |-> info,
           h |-> [h EXCEPT !.m_probed = TRUE, !.m_probe_call_status = info,
                           !.m_metadata = file.metadata,
                           !.m_img_wd = file.width, !.m_img_ht = file.height,
                           !.m_gainmap_wd = file.gm_width, !.m_gainmap_ht = file.gm_height,
                           !.m_exif = file.exifData, !.m_icc = file.iccData,
                           !.m_base_xmp = file.xmpData, !.m_gainmap_xmp = file.gm_xmpData],
           parsed |-> 1]

(* parsed: 1 when this call ran the parsers of the codec, else 0.          *)
uhdr_dec_probe(h) ==
  IF h.m_probed
  THEN [status |-> h.m_probe_call_status, h |-> h, parsed |-> 0]
  ELSE LET h1 == [h EXCEPT !.m_probed = TRUE] IN
  IF h1.m_uhdr_compressed_img = NULL
  THEN [status |-> ErrorInfo(UHDR_CODEC_INVALID_OPERATION, "did not receive any image for decoding"),
        h |-> [h1 EXCEPT !.m_probe_call_status =
                 ErrorInfo(UHDR_CODEC_INVALID_OPERATION, "did not receive any image for decoding")],
        parsed |-> 0]
  ELSE LET file == Deref(h1.m_uhdr_compressed_img).file
           info == map_internal_error_status_to_error_info(file.info)
           bad_xmp == ErrorInfo(UHDR_CODEC_UNKNOWN_ERROR, "encountered error while parsing metadata")
       IN IF info.error_code # UHDR_CODEC_OK
          THEN [status |-> info, h |-> [h1 EXCEPT !.m_probe_call_status = info], parsed |-> 1]
          ELSE IF ~file.xmp_ok
          THEN [status |-> bad_xmp, h |-> [h1 EXCEPT !.m_probe_call_status = bad_xmp], parsed |-> 1]
          ELSE [status |-> info,
                h |-> [h1 EXCEPT !.m_probe_call_status = info,
                                 !.m_metadata = file.metadata,
                                 !.m_img_wd = file.width, !.m_img_ht = file.height,
                                 !.m_gainmap_wd = file.gm_width, !.m_gainmap_ht = file.gm_height,
                                 !.m_exif = file.exifData, !.m_icc = file.iccData,
                                 !.m_base_xmp = file.xmpData, !.m_gainmap_xmp = file.gm_xmpData],
                parsed |-> 1]

(* is_uhdr_image whose RET_IF_ERR returns 0 without releasing obj.          *)
is_uhdr_image_leaking(data, size) ==
  LET obj == uhdr_create_decoder
      uhdr_image == UhdrImage(data # NULL, size, size, IF data = NULL THEN <<>> ELSE Deref(data))
      Probed(p) ==
        IF p.status.error_code # UHDR_CODEC_OK
        THEN [value |-> 0, parsed |-> p.parsed,
              calls |-> <<"uhdr_create_decoder", "uhdr_dec_set_image", "uhdr_dec_probe">>]
        ELSE [value |-> 1, parsed |-> p.parsed,
              calls |-> <<"uhdr_create_decoder", "uhdr_dec_set_image", "uhdr_dec_probe",
                          "uhdr_release_decoder">>]
      Attached(a) ==
        IF a.status.error_code # UHDR_CODEC_OK
        THEN [value |-> 0, parsed |-> 0,
              calls |-> <<"uhdr_create_decoder", "uhdr_dec_set_image">>]
        ELSE Probed(uhdr_dec_probe(a.h))
  IN Attached(uhdr_dec_set_image(obj, Ptr(uhdr_image)))

(* is_uhdr_image(data, size): data is null or points at the bytes of a     *)
(* file.  value is what it returns, calls the API calls it makes on its    *)
(* own decoder, parsed whether the parsers of the codec ran.               *)
is_uhdr_image(data, size) ==
  LET obj == uhdr_create_decoder
      uhdr_image == UhdrImage(data # NULL, size, size, IF data = NULL THEN <<>> ELSE Deref(data))
      Probed(p) ==
        IF p.status.error_code # UHDR_CODEC_OK
        THEN [value |-> 0, parsed |-> p.parsed,
              calls |-> <<"uhdr_create_decoder", "uhdr_dec_set_image", "uhdr_dec_probe",
                          "uhdr_release_decoder">>]
        ELSE [value |-> 1, parsed |-> p.parsed,
              calls |-> <<"uhdr_create_decoder", "uhdr_dec_set_image", "uhdr_dec_probe",
                          "uhdr_release_decoder">>]
      Attached(a) ==
        IF a.status.error_code # UHDR_CODEC_OK
        THEN [value |-> 0, parsed |-> 0,
              calls |-> <<"uhdr_create_decoder", "uhdr_dec_set_image", "uhdr_release_decoder">>]
        ELSE Probed(uhdr_dec_probe(a.h))
  IN Attached(uhdr_dec_set_image(obj, Ptr(uhdr_image)))

ProbeOk(h) == h.m_probed /\ h.m_probe_call_status.error_code = UHDR_CODEC_OK

(* A width query answering with the width of the decoded buffer.           *)
uhdr_dec_get_image_width_of_buffer(h) ==
  IF ~ProbeOk(h) THEN -1
  ELSE IF h.m_decoded_img_buffer = NULL THEN h.m_img_wd
  ELSE Deref(h.m_decoded_img_buffer).w

uhdr_dec_get_image_width(h) == IF ~ProbeOk(h) THEN -1 ELSE h.m_img_wd
uhdr_dec_get_image_height(h) == IF ~ProbeOk(h) THEN -1 ELSE h.m_img_ht
uhdr_dec_get_gainmap_width(h) == IF ~ProbeOk(h) THEN -1 ELSE h.m_gainmap_wd
uhdr_dec_get_gainmap_height(h) == IF ~ProbeOk(h) THEN -1 ELSE h.m_gainmap_ht
uhdr_dec_get_exif(h) == IF ~ProbeOk(h) THEN NULL ELSE Ptr(h.m_exif)
uhdr_dec_get_icc(h) == IF ~ProbeOk(h) THEN NULL ELSE Ptr(h.m_icc)
uhdr_dec_get_gain_map_metadata(h) == IF ~ProbeOk(h) THEN NULL ELSE Ptr(h.m_metadata)

----------------------------------------------------------------------------
(* apply_effects on a uhdr_decoder_private.                                *)

(* The quotient rounded up where it is positive.                           *)
ScaleDown_rounded_up(n, w, g) ==
  IF n * g >= 0 THEN (n * g + w - 1) \div w ELSE -((-(n * g)) \div w)

(* (int)(n / ((float)w / g)): the quotient n * g / w cut towards zero.     *)
ScaleDown(n, w, g) ==
  IF n * g >= 0 THEN (n * g) \div w ELSE -((-(n * g)) \div w)

(* Both results must be non-null, and only then are the buffers replaced.  *)
DecInstall(it, img, gm, disp_img, gm_img) ==
  IF disp_img = NULL \/ gm_img = NULL
  THEN [status |-> ErrorInfo(UHDR_CODEC_UNKNOWN_ERROR, EffectDetail(it)),
        img |-> img, gm |-> gm, rect |-> <<>>]
  ELSE [status |-> g_no_error, img |-> Deref(disp_img), gm |-> Deref(gm_img), rect |-> <<>>]

DecFail(detail, img, gm) ==
  [status |-> ErrorInfo(UHDR_CODEC_INVALID_PARAM, detail), img |-> img, gm |-> gm, rect |-> <<>>]

(* The crop branch taking the rectangle as given, not clamped.             *)
DecCrop_unclamped(it, disp, gm) ==
  LET left == it.m_left
      right == it.m_right
      top == it.m_top
      bottom == it.m_bottom
      gm_left == ScaleDown(left, disp.w, gm.w)
      gm_right == ScaleDown(right, disp.w, gm.w)
      gm_top == ScaleDown(top, disp.h, gm.h)
      gm_bottom == ScaleDown(bottom, disp.h, gm.h)
  IN IF right <= left \/ bottom <= top \/ gm_right <= gm_left \/ gm_bottom <= gm_top
     THEN DecFail("unexpected crop dimensions", disp, gm)
     ELSE [status |-> g_no_error,
           img |-> apply_crop(disp, left, top, right - left, bottom - top),
           gm |-> apply_crop(gm, gm_left, gm_top, gm_right - gm_left, gm_bottom - gm_top),
           rect |-> <<[left |-> left, top |-> top, right |-> right, bottom |-> bottom],
                      [left |-> gm_left, top |-> gm_top, right |-> gm_right, bottom |-> gm_bottom]>>]

(* The crop branch without the two tests of the gain map's rectangle.      *)
DecCrop_image_only(it, disp, gm) ==
  LET left == Max(0, it.m_left)
      right == Min(disp.w, it.m_right)
      top == Max(0, it.m_top)
      bottom == Min(disp.h, it.m_bottom)
      gm_left == ScaleDown(left, disp.w, gm.w)
      gm_right == ScaleDown(right, disp.w, gm.w)
      gm_top == ScaleDown(top, disp.h, gm.h)
      gm_bottom == ScaleDown(bottom, disp.h, gm.h)
  IN IF right <= left
     THEN DecFail("unexpected crop dimensions. crop right is <= crop left", disp, gm)
     ELSE IF bottom <= top
     THEN DecFail("unexpected crop dimensions. crop bottom is <= crop top", disp, gm)
     ELSE [status |-> g_no_error,
           img |-> apply_crop(disp, left, top, right - left, bottom - top),
           gm |-> apply_crop(gm, gm_left, gm_top, gm_right - gm_left, gm_bottom - gm_top),
           rect |-> <<[left |-> left, top |-> top, right |-> right, bottom |-> bottom],
                      [left |-> gm_left, top |-> gm_top, right |-> gm_right, bottom |-> gm_bottom]>>]

DecCrop(it, disp, gm) ==
  LET left == Max(0, it.m_left)
      right == Min(disp.w, it.m_right)
      top == Max(0, it.m_top)
      bottom == Min(disp.h, it.m_bottom)
      gm_left == ScaleDown(left, disp.w, gm.w)
      gm_right == ScaleDown(right, disp.w, gm.w)
      gm_top == ScaleDown(top, disp.h, gm.h)
      gm_bottom == ScaleDown(bottom, disp.h, gm.h)
  IN IF right <= left
     THEN DecFail("unexpected crop dimensions. crop right is <= crop left", disp, gm)
     ELSE IF bottom <= top
     THEN DecFail("unexpected crop dimensions. crop bottom is <= crop top", disp, gm)
     ELSE IF gm_right <= gm_left
     THEN DecFail("unexpected crop dimensions. crop right is <= crop left for gainmap image", disp, gm)
     ELSE IF gm_bottom <= gm_top
     THEN DecFail("unexpected crop dimensions. crop bottom is <= crop top for gainmap image", disp, gm)
     ELSE [status |-> g_no_error,
           img |-> apply_crop(disp, left, top, right - left, bottom - top),
           gm |-> apply_crop(gm, gm_left, gm_top, gm_right - gm_left, gm_bottom - gm_top),
           rect |-> <<[left |-> left, top |-> top, right |-> right, bottom |-> bottom],
                      [left |-> gm_left, top |-> gm_top, right |-> gm_right, bottom |-> gm_bottom]>>]

DecResize(it, disp, gm, nl) ==
  LET dst_w == it.m_width
      dst_h == it.m_height
      dst_gm_w == ScaleDown(dst_w, disp.w, gm.w)
      dst_gm_h == ScaleDown(dst_h, disp.h, gm.h)
  IN IF dst_w = 0 \/ dst_h = 0 \/ dst_gm_w = 0 \/ dst_gm_h = 0
     THEN DecFail("destination dimension cannot be zero", disp, gm)
     ELSE DecInstall(it, disp, gm,
            IF nl.img THEN NULL ELSE Ptr(apply_resize(it, disp, dst_w, dst_h)),
            IF nl.other THEN NULL ELSE Ptr(apply_resize(it, gm, dst_gm_w, dst_gm_h)))

(* One iteration of the loop over dec->m_effects.                          *)
DecEffectStep(it, disp, gm, nl) ==
  IF it.type = "rotate"
  THEN DecInstall(it, disp, gm,
         IF nl.img THEN NULL ELSE Ptr(apply_rotate(it, disp)),
         IF nl.other THEN NULL ELSE Ptr(apply_rotate(it, gm)))
  ELSE IF it.type = "mirror"
  THEN DecInstall(it, disp, gm,
         IF nl.img THEN NULL ELSE Ptr(apply_mirror(it, disp)),
         IF nl.other THEN NULL ELSE Ptr(apply_mirror(it, gm)))
  ELSE IF it.type = "crop" THEN DecCrop(it, disp, gm)
  ELSE IF it.type = "resize" THEN DecResize(it, disp, gm, nl)
  ELSE DecInstall(it, disp, gm, NULL, NULL)

RECURSIVE DecEffectsFrom(_, _, _, _, _, _)
DecEffectsFrom(effects, i, disp, gm, nulls, log) ==
  IF i > Len(effects)
  THEN [status |-> g_no_error, img |-> disp, gm |-> gm, log |-> log]
  ELSE LET Logged(step, entry) ==
             IF step.status.error_code # UHDR_CODEC_OK
             THEN [status |-> step.status, img |-> step.img, gm |-> step.gm,
                   log |-> Append(log, entry)]
             ELSE DecEffectsFrom(effects, i + 1, step.img, step.gm, nulls, Append(log, entry))
           Stepped(step) ==
             Logged(step, [it |-> effects[i], status |-> step.status,
                           before |-> [img |-> disp, gm |-> gm],
                           imgs |-> [img |-> step.img, gm |-> step.gm], rect |-> step.rect])
       IN Stepped(DecEffectStep(effects[i], disp, gm, NullsAt(nulls, i)))

dec_apply_effects(effects, disp, gm, nulls) ==
  DecEffectsFrom(effects, 1, disp, gm, nulls, <<>>)

----------------------------------------------------------------------------
(* uhdr_decode.                                                            *)

ULTRAHDR_OUTPUT_UNSPECIFIED == "ULTRAHDR_OUTPUT_UNSPECIFIED"
ULTRAHDR_OUTPUT_SDR == "ULTRAHDR_OUTPUT_SDR"
ULTRAHDR_OUTPUT_HDR_LINEAR == "ULTRAHDR_OUTPUT_HDR_LINEAR"
ULTRAHDR_OUTPUT_HDR_PQ == "ULTRAHDR_OUTPUT_HDR_PQ"
ULTRAHDR_OUTPUT_HDR_HLG == "ULTRAHDR_OUTPUT_HDR_HLG"

(* A table that takes the format from the transfer alone.                  *)
map_ct_to_internal_output_fmt(ct, fmt) ==
  IF ct = UHDR_CT_HLG THEN ULTRAHDR_OUTPUT_HDR_HLG
  ELSE IF ct = UHDR_CT_PQ THEN ULTRAHDR_OUTPUT_HDR_PQ
  ELSE IF ct = UHDR_CT_LINEAR THEN ULTRAHDR_OUTPUT_HDR_LINEAR
  ELSE IF ct = UHDR_CT_SRGB THEN ULTRAHDR_OUTPUT_SDR
  ELSE ULTRAHDR_OUTPUT_UNSPECIFIED

map_ct_fmt_to_internal_output_fmt(ct, fmt) ==
  IF ct = UHDR_CT_HLG /\ fmt = UHDR_IMG_FMT_32bppRGBA1010102 THEN ULTRAHDR_OUTPUT_HDR_HLG
  ELSE IF ct = UHDR_CT_PQ /\ fmt = UHDR_IMG_FMT_32bppRGBA1010102 THEN ULTRAHDR_OUTPUT_HDR_PQ
  ELSE IF ct = UHDR_CT_LINEAR /\ fmt = UHDR_IMG_FMT_64bppRGBAHalfFloat THEN ULTRAHDR_OUTPUT_HDR_LINEAR
  ELSE IF ct = UHDR_CT_SRGB /\ fmt = UHDR_IMG_FMT_32bppRGBA8888 THEN ULTRAHDR_OUTPUT_SDR
  ELSE ULTRAHDR_OUTPUT_UNSPECIFIED

(* The part of uhdr_decode after m_sailed is set: the output format, the   *)
(* two buffers, the codec and the effects.  out = [status, colorGamut] is  *)
(* what JpegR::decodeJPEGR hands back.                                     *)
DecCodecStage(h, out, nulls) ==
  LET outputFormat == map_ct_fmt_to_internal_output_fmt(h.m_output_ct, h.m_output_fmt)
      bad == ErrorInfo(UHDR_CODEC_INVALID_PARAM,
                       "unsupported output pixel format and output color transfer pair")
      img == uhdr_raw_image_ext(h.m_output_fmt, UHDR_CG_UNSPECIFIED, h.m_output_ct,
                                h.m_img_wd, h.m_img_ht)
      gm == uhdr_raw_image_ext(UHDR_IMG_FMT_8bppYCbCr400, UHDR_CG_UNSPECIFIED,
                               UHDR_CT_UNSPECIFIED, h.m_gainmap_wd, h.m_gainmap_ht)
      status == map_internal_error_status_to_error_info(out.status)
      cinv == [fn |-> "decodeJPEGR", output_format |-> outputFormat,
               max_display_boost |-> h.m_output_max_disp_boost,
               length |-> Deref(h.m_uhdr_compressed_img).data_sz]
      img_ok == [img EXCEPT !.cg = map_internal_cg_to_cg(out.colorGamut)]
      Edited(r) ==
        [h |-> [h EXCEPT !.m_decode_call_status = r.status,
                         !.m_decoded_img_buffer = Ptr(r.img),
                         !.m_gainmap_img_buffer = Ptr(r.gm)],
         codec |-> <<[call |-> cinv, result |-> out]>>, fx |-> r.log]
  IN IF outputFormat = ULTRAHDR_OUTPUT_UNSPECIFIED
     THEN [h |-> [h EXCEPT !.m_decode_call_status = bad], codec |-> <<>>, fx |-> <<>>]
     ELSE IF status.error_code # UHDR_CODEC_OK
     THEN [h |-> [h EXCEPT !.m_decode_call_status = status,
                           !.m_decoded_img_buffer = Ptr(img),
                           !.m_gainmap_img_buffer = Ptr(gm)],
           codec |-> <<[call |-> cinv, result |-> out]>>, fx |-> <<>>]
     ELSE IF Len(h.m_effects) = 0
     THEN [h |-> [h EXCEPT !.m_decode_call_status = status,
                           !.m_decoded_img_buffer = Ptr(img_ok),
                           !.m_gainmap_img_buffer = Ptr(gm)],
           codec |-> <<[call |-> cinv, result |-> out]>>, fx |-> <<>>]
     ELSE Edited(dec_apply_effects(h.m_effects, img_ok, gm, nulls))

(* uhdr_decode without the m_sailed test at its head.                      *)
uhdr_decode_unguarded(h, out, nulls) ==
  LET Probed(p) ==
        LET h1 == [p.h EXCEPT !.m_decode_call_status = p.status]
            Run(run) == [status |-> run.h.m_decode_call_status, h |-> run.h,
                         codec |-> run.codec, fx |-> run.fx, parsed |-> p.parsed]
        IN IF p.status.error_code # UHDR_CODEC_OK
           THEN [status |-> p.status, h |-> h1, codec |-> <<>>, fx |-> <<>>,
                 parsed |-> p.parsed]
           ELSE Run(DecCodecStage([h1 EXCEPT !.m_sailed = TRUE], out, nulls))
  IN Probed(uhdr_dec_probe(h))

(* uhdr_decode going on to the codec after a failed probe of an attached   *)
(* image.                                                                  *)
uhdr_decode_past_probe(h, out, nulls) ==
  IF h.m_sailed
  THEN [status |-> h.m_decode_call_status, h |-> h, codec |-> <<>>, fx |-> <<>>, parsed |-> 0]
  ELSE LET Probed(p) ==
             LET h1 == [p.h EXCEPT !.m_decode_call_status = p.status]
                 Run(run) == [status |-> run.h.m_decode_call_status, h |-> run.h,
                              codec |-> run.codec, fx |-> run.fx, parsed |-> p.parsed]
             IN IF p.status.error_code # UHDR_CODEC_OK /\ h.m_uhdr_compressed_img = NULL
                THEN [status |-> p.status, h |-> h1, codec |-> <<>>, fx |-> <<>>,
                      parsed |-> p.parsed]
                ELSE Run(DecCodecStage([h1 EXCEPT !.m_sailed = TRUE], out, nulls))
       IN Probed(uhdr_dec_probe(h))

(* uhdr_decode applying m_effects to the decoded buffers on every call.    *)
uhdr_decode_reapplying(h, out, nulls) ==
  IF h.m_sailed
  THEN IF h.m_decode_call_status.error_code = UHDR_CODEC_OK /\ Len(h.m_effects) # 0
       THEN LET Edited(r) ==
                  [status |-> r.status,
                   h |-> [h EXCEPT !.m_decode_call_status = r.status,
                                   !.m_decoded_img_buffer = Ptr(r.img),
                                   !.m_gainmap_img_buffer = Ptr(r.gm)],
                   codec |-> <<>>, fx |-> r.log, parsed |-> 0]
            IN Edited(dec_apply_effects(h.m_effects, Deref(h.m_decoded_img_buffer),
                                        Deref(h.m_gainmap_img_buffer), nulls))
       ELSE [status |-> h.m_decode_call_status, h |-> h, codec |-> <<>>, fx |-> <<>>,
             parsed |-> 0]
  ELSE LET Probed(p) ==
             LET h1 == [p.h EXCEPT !.m_decode_call_status = p.status]
                 Run(run) == [status |-> run.h.m_decode_call_status, h |-> run.h,
                              codec |-> run.codec, fx |-> run.fx, parsed |-> p.parsed]
             IN IF p.status.error_code # UHDR_CODEC_OK
                THEN [status |-> p.status, h |-> h1, codec |-> <<>>, fx |-> <<>>,
                      parsed |-> p.parsed]
                ELSE Run(DecCodecStage([h1 EXCEPT !.m_sailed = TRUE], out, nulls))
       IN Probed(uhdr_dec_probe(h))

(* parsed: what the uhdr_dec_probe call inside reported.                   *)
uhdr_decode(h, out, nulls) ==
  IF h.m_sailed
  THEN [status |-> h.m_decode_call_status, h |-> h, codec |-> <<>>, fx |-> <<>>, parsed |-> 0]
  ELSE LET Probed(p) ==
             LET h1 == [p.h EXCEPT !.m_decode_call_status = p.status]
                 Run(run) == [status |-> run.h.m_decode_call_status, h |-> run.h,
                              codec |-> run.codec, fx |-> run.fx, parsed |-> p.parsed]
             IN IF p.status.error_code # UHDR_CODEC_OK
                THEN [status |-> p.status, h |-> h1, codec |-> <<>>, fx |-> <<>>,
                      parsed |-> p.parsed]
                ELSE Run(DecCodecStage([h1 EXCEPT !.m_sailed = TRUE], out, nulls))
       IN Probed(uhdr_dec_probe(h))

DecodeOk(h) == h.m_sailed /\ h.m_decode_call_status.error_code = UHDR_CODEC_OK

(* A retriever that hands out the buffer whatever the decode status.       *)
uhdr_get_decoded_image_unchecked(h) == h.m_decoded_img_buffer

uhdr_get_decoded_image(h) == IF ~DecodeOk(h) THEN NULL ELSE h.m_decoded_img_buffer
uhdr_get_gain_map_image(h) == IF ~DecodeOk(h) THEN NULL ELSE h.m_gainmap_img_buffer

----------------------------------------------------------------------------
(* The state machine: one action per API call on the live handle.          *)

(* The longest effects list a session is driven to.                        *)
MaxEffects == 1

NoCall == [op |-> "none", args |-> <<>>, ret |-> g_no_error, sailed |-> FALSE]

NoLatch == [uhdr_encode |-> <<>>, uhdr_dec_probe |-> <<>>, uhdr_decode |-> <<>>]

(* uhdr_create_encoder() or uhdr_create_decoder() has returned the handle. *)
Init(kinds) ==
  /\ kind \in kinds
  /\ enc = uhdr_create_encoder
  /\ dec = uhdr_create_decoder
  /\ call = NoCall
  /\ codec = <<>>
  /\ fx = <<>>
  /\ latched = NoLatch

Live == IF kind = "enc" THEN enc ELSE dec

Observe(op, args, ret) ==
  call' = [op |-> op, args |-> args, ret |-> ret, sailed |-> Live.m_sailed]

(* latched after op has returned status.                                   *)
Latch(op, status) ==
  IF status.error_code # UHDR_CODEC_OK /\ latched[op] = <<>>
  THEN [latched EXCEPT ![op] = <<status>>]
  ELSE latched

(* A configuration call on the encoder that returned r.                    *)
EncStep(op, args, r) ==
  /\ kind = "enc"
  /\ enc' = r.h
  /\ Observe(op, args, r.status)
  /\ codec' = <<>>
  /\ fx' = <<>>
  /\ UNCHANGED <<kind, dec, latched>>

(* A configuration call on the decoder that returned r.                    *)
DecStep(op, args, r) ==
  /\ kind = "dec"
  /\ dec' = r.h
  /\ Observe(op, args, r.status)
  /\ codec' = <<>>
  /\ fx' = <<>>
  /\ UNCHANGED <<kind, enc, latched>>

SetRawImage(imgs, intents, conv_nulls) ==
  \E img \in imgs, intent \in intents, conv_null \in conv_nulls :
    EncStep("uhdr_enc_set_raw_image", <<img, intent>>,
            uhdr_enc_set_raw_image(enc, img, intent, conv_null))

SetCompressedImage(imgs, intents) ==
  \E img \in imgs, intent \in intents :
    EncStep("uhdr_enc_set_compressed_image", <<img, intent>>,
            uhdr_enc_set_compressed_image(enc, img, intent))

SetGainmapImage(imgs, metadatas) ==
  \E img \in imgs, metadata \in metadatas :
    EncStep("uhdr_enc_set_gainmap_image", <<img, metadata>>,
            uhdr_enc_set_gainmap_image(enc, img, metadata))

SetQuality(qualities, intents) ==
  \E quality \in qualities, intent \in intents :
    EncStep("uhdr_enc_set_quality", <<quality, intent>>,
            uhdr_enc_set_quality(enc, quality, intent))

SetExifData(exifs) ==
  \E exif \in exifs :
    EncStep("uhdr_enc_set_exif_data", <<exif>>, uhdr_enc_set_exif_data(enc, exif))

SetOutputFormat(media_types) ==
  \E media_type \in media_types :
    EncStep("uhdr_enc_set_output_format", <<media_type>>,
            uhdr_enc_set_output_format(enc, media_type))

SetGainmapScaleFactor(factors) ==
  \E gainmap_scale_factor \in factors :
    EncStep("uhdr_enc_set_gainmap_scale_factor", <<gainmap_scale_factor>>,
            uhdr_enc_set_gainmap_scale_factor(enc, gainmap_scale_factor))

SetUsingMultiChannelGainmap(flags) ==
  \E use_multi_channel_gainmap \in flags :
    EncStep("uhdr_enc_set_using_multi_channel_gainmap", <<use_multi_channel_gainmap>>,
            uhdr_enc_set_using_multi_channel_gainmap(enc, use_multi_channel_gainmap))

(* uhdr_add_effect_* take either handle.  The model stops adding at        *)
(* MaxEffects entries.                                                     *)
EffectStep(op, args, r) ==
  /\ Len(Live.m_effects) < MaxEffects
  /\ IF kind = "enc" THEN enc' = r.h /\ dec' = dec ELSE dec' = r.h /\ enc' = enc
  /\ Observe(op, args, r.status)
  /\ codec' = <<>>
  /\ fx' = <<>>
  /\ UNCHANGED <<kind, latched>>

AddEffectMirror(directions) ==
  \E direction \in directions :
    EffectStep("uhdr_add_effect_mirror", <<direction>>, uhdr_add_effect_mirror(Live, direction))

AddEffectRotate(angles) ==
  \E degrees \in angles :
    EffectStep("uhdr_add_effect_rotate", <<degrees>>, uhdr_add_effect_rotate(Live, degrees))

(* rects: tuples <<left, right, top, bottom>>.                             *)
AddEffectCrop(rects) ==
  \E rect \in rects :
    EffectStep("uhdr_add_effect_crop", rect,
               uhdr_add_effect_crop(Live, rect[1], rect[2], rect[3], rect[4]))

(* sizes: tuples <<width, height>>.                                        *)
AddEffectResize(sizes) ==
  \E size \in sizes :
    EffectStep("uhdr_add_effect_resize", size, uhdr_add_effect_resize(Live, size[1], size[2]))

(* outs: what the codec may hand back; nulls: which helper results of the  *)
(* pipeline may come back null.                                            *)
Encode(outs, nulls) ==
  /\ kind = "enc"
  /\ \E out \in outs, nl \in nulls : \E r \in {uhdr_encode(enc, out, nl)} :
       /\ enc' = r.h
       /\ Observe("uhdr_encode", <<>>, r.status)
       /\ codec' = r.codec
       /\ fx' = r.fx
       /\ latched' = Latch("uhdr_encode", r.status)
       /\ UNCHANGED <<kind, dec>>

ResetEncoder ==
  /\ kind = "enc"
  /\ enc' = uhdr_reset_encoder(enc)
  /\ Observe("uhdr_reset_encoder", <<>>, g_no_error)
  /\ codec' = <<>>
  /\ fx' = <<>>
  /\ latched' = NoLatch
  /\ UNCHANGED <<kind, dec>>

DecSetImage(imgs) ==
  \E img \in imgs :
    DecStep("uhdr_dec_set_image", <<img>>, uhdr_dec_set_image(dec, img))

DecSetOutImgFormat(fmts) ==
  \E fmt \in fmts :
    DecStep("uhdr_dec_set_out_img_format", <<fmt>>, uhdr_dec_set_out_img_format(dec, fmt))

DecSetOutColorTransfer(cts) ==
  \E ct \in cts :
    DecStep("uhdr_dec_set_out_color_transfer", <<ct>>, uhdr_dec_set_out_color_transfer(dec, ct))

DecSetOutMaxDisplayBoost(boosts) ==
  \E display_boost \in boosts :
    DecStep("uhdr_dec_set_out_max_display_boost", <<display_boost>>,
            uhdr_dec_set_out_max_display_boost(dec, display_boost))

Probe ==
  /\ kind = "dec"
  /\ \E r \in {uhdr_dec_probe(dec)} :
       /\ dec' = r.h
       /\ Observe("uhdr_dec_probe", <<>>, r.status)
       /\ codec' = IF r.parsed = 1 THEN <<[call |-> [fn |-> "getJPEGRInfo"]]>> ELSE <<>>
       /\ fx' = <<>>
       /\ latched' = Latch("uhdr_dec_probe", r.status)
       /\ UNCHANGED <<kind, enc>>

Decode(outs, nulls) ==
  /\ kind = "dec"
  /\ \E out \in outs, nl \in nulls : \E r \in {uhdr_decode(dec, out, nl)} :
       /\ dec' = r.h
       /\ Observe("uhdr_decode", <<>>, r.status)
       /\ codec' = (IF r.parsed = 1 THEN <<[call |-> [fn |-> "getJPEGRInfo"]]>> ELSE <<>>) \o r.codec
       /\ fx' = r.fx
       /\ latched' = Latch("uhdr_decode", r.status)
       /\ UNCHANGED <<kind, enc>>

ResetDecoder ==
  /\ kind = "dec"
  /\ dec' = uhdr_reset_decoder(dec)
  /\ Observe("uhdr_reset_decoder", <<>>, g_no_error)
  /\ codec' = <<>>
  /\ fx' = <<>>
  /\ latched' = NoLatch
  /\ UNCHANGED <<kind, enc>>

(* is_uhdr_image works on a decoder of its own: the live handles are not   *)
(* among its arguments, and the parsers it runs are not run for them.      *)
IsUhdrImage(datas, sizes) ==
  \E data \in datas, size \in sizes :
    /\ Observe("is_uhdr_image", <<data, size>>, is_uhdr_image(data, size))
    /\ codec' = <<>>
    /\ fx' = <<>>
    /\ UNCHANGED <<kind, enc, dec, latched>>

(* The result retrievers: they read the handle and change nothing.         *)
Retriever(name) ==
  CASE name = "uhdr_get_encoded_stream" -> uhdr_get_encoded_stream(enc)
    [] name = "uhdr_dec_get_image_width" -> uhdr_dec_get_image_width(dec)
    [] name = "uhdr_dec_get_image_height" -> uhdr_dec_get_image_height(dec)
    [] name = "uhdr_dec_get_gainmap_width" -> uhdr_dec_get_gainmap_width(dec)
    [] name = "uhdr_dec_get_gainmap_height" -> uhdr_dec_get_gainmap_height(dec)
    [] name = "uhdr_dec_get_exif" -> uhdr_dec_get_exif(dec)
    [] name = "uhdr_dec_get_icc" -> uhdr_dec_get_icc(dec)
    [] name = "uhdr_dec_get_gain_map_metadata" -> uhdr_dec_get_gain_map_metadata(dec)
    [] name = "uhdr_get_decoded_image" -> uhdr_get_decoded_image(dec)
    [] name = "uhdr_get_gain_map_image" -> uhdr_get_gain_map_image(dec)

EncRetrievers == {"uhdr_get_encoded_stream"}

ProbeRetrievers ==
  {"uhdr_dec_get_image_width", "uhdr_dec_get_image_height", "uhdr_dec_get_gainmap_width",
   "uhdr_dec_get_gainmap_height", "uhdr_dec_get_exif", "uhdr_dec_get_icc",
   "uhdr_dec_get_gain_map_metadata"}

DecodeRetrievers == {"uhdr_get_decoded_image", "uhdr_get_gain_map_image"}

Retrieve ==
  \E name \in IF kind = "enc" THEN EncRetrievers ELSE ProbeRetrievers \cup DecodeRetrievers :
    /\ Observe(name, <<>>, Retriever(name))
    /\ codec' = <<>>
    /\ fx' = <<>>
    /\ UNCHANGED <<kind, enc, dec, latched>>

----------------------------------------------------------------------------
(* Inputs the sessions are driven with.                                    *)

HdrImage == RawImage(UHDR_IMG_FMT_24bppYCbCrP010, UHDR_CG_BT_2100, UHDR_CT_HLG, 16, 8)
SdrImage == RawImage(UHDR_IMG_FMT_12bppYCbCr420, UHDR_CG_BT_709, UHDR_CT_SRGB, 16, 8)
JpegImage == CompressedImage(TRUE, 100, 100, UHDR_CG_BT_709)
GainmapMetadata == Metadata(40, 10, 10, 0, 0, 10, 40)
ExifBlock == [data |-> TRUE, data_sz |-> 2, capacity |-> 2, bytes |-> <<69, 120>>]

(* What JpegR::encodeJPEGR hands back: success with a stream, or an error. *)
EncodeOk == [status |-> JPEGR_NO_ERROR, length |-> 64, colorGamut |-> ULTRAHDR_COLORGAMUT_BT709]
EncodeError == [status |-> ERROR_JPEGR_ENCODE_ERROR, length |-> 0,
                colorGamut |-> ULTRAHDR_COLORGAMUT_UNSPECIFIED]

----------------------------------------------------------------------------
(* Spec: the life of an encoder session.  Every configuration call is made *)
(* with valid arguments, before and after uhdr_encode(), and the session   *)
(* is reset and reused.                                                    *)

Next ==
  \/ SetRawImage({Ptr(HdrImage)}, {UHDR_HDR_IMG}, {FALSE})
  \/ SetCompressedImage({Ptr(JpegImage)}, {UHDR_SDR_IMG})
  \/ SetGainmapImage({Ptr(JpegImage)}, {Ptr(GainmapMetadata)})
  \/ SetQuality({50}, {UHDR_BASE_IMG})
  \/ SetExifData({Ptr(ExifBlock)})
  \/ SetOutputFormat({UHDR_CODEC_JPG})
  \/ SetGainmapScaleFactor({2})
  \/ SetUsingMultiChannelGainmap({TRUE})
  \/ AddEffectMirror({UHDR_MIRROR_HORIZONTAL})
  \/ AddEffectRotate({90})
  \/ AddEffectCrop({<<0, 8, 0, 8>>})
  \/ AddEffectResize({<<8, 8>>})
  \/ Encode({EncodeOk, EncodeError}, {NoNulls})
  \/ ResetEncoder

Spec == Init({"enc"}) /\ [][Next]_vars

(* The configuration calls of the encoder.                                 *)
EncConfigCalls ==
  {"uhdr_enc_set_raw_image", "uhdr_enc_set_compressed_image", "uhdr_enc_set_gainmap_image",
   "uhdr_enc_set_quality", "uhdr_enc_set_exif_data", "uhdr_enc_set_output_format",
   "uhdr_enc_set_gainmap_scale_factor", "uhdr_enc_set_using_multi_channel_gainmap",
   "uhdr_add_effect_mirror", "uhdr_add_effect_rotate", "uhdr_add_effect_crop",
   "uhdr_add_effect_resize"}

(* The configuration fields of the encoder.                                *)
EncConfig(h) ==
  <<h.m_raw_images, h.m_compressed_images, h.m_quality, h.m_exif, h.m_metadata,
    h.m_output_format, h.m_gainmap_scale_factor, h.m_use_multi_channel_gainmap, h.m_effects>>

(* C1: every encoder configuration call issued after uhdr_encode() and     *)
(* before the next reset returns UHDR_CODEC_INVALID_OPERATION.             *)
(* call.sailed is m_sailed as the call found it.  The code departs from    *)
(* this: the scale-factor and multi-channel setters and the four           *)
(* uhdr_add_effect_* calls never look at m_sailed and return OK.           *)
C1_SealedConfigCallRejected ==
  (call.op \in EncConfigCalls /\ call.sailed)
    => call.ret.error_code = UHDR_CODEC_INVALID_OPERATION

(* A sealed session on which uhdr_enc_set_gainmap_scale_factor returned OK. *)
C1_SealedSetterAccepted ==
  /\ call.op = "uhdr_enc_set_gainmap_scale_factor"
  /\ call.sailed
  /\ call.ret.error_code = UHDR_CODEC_OK

(* C2: between the first uhdr_encode() and the next reset no encoder       *)
(* configuration call changes a configuration field: the raw and           *)
(* compressed registries, the quality map, the exif blob, the gain-map     *)
(* metadata, the output format, the scale factor, the multi-channel flag   *)
(* and the effects list.  The code departs from this for the last three.   *)
C2_SealedConfigFrozen ==
  [][(enc.m_sailed /\ call'.op \in EncConfigCalls) => EncConfig(enc') = EncConfig(enc)]_vars

(* A sealed session whose effects list has grown.                          *)
C2_SealedEffectsGrew ==
  /\ call.op = "uhdr_add_effect_rotate"
  /\ call.sailed
  /\ enc.m_sailed
  /\ Len(enc.m_effects) > 0

(* C3: uhdr_encode() is idempotent after its first call.  While the        *)
(* session stays sealed, no call other than reset changes the stored       *)
(* status, the raw images or the output buffer; what any uhdr_encode()     *)
(* returns is the stored status; and a uhdr_encode() on a sealed session   *)
(* returns the status already stored, invokes no codec and runs no effect, *)
(* whatever configuration calls were made in between.                      *)
C3_EncodeIdempotent ==
  [][/\ call'.op = "uhdr_encode" => call'.ret = enc'.m_encode_call_status
     /\ (enc.m_sailed /\ call'.op # "uhdr_reset_encoder") =>
          /\ enc'.m_sailed
          /\ enc'.m_encode_call_status = enc.m_encode_call_status
          /\ enc'.m_raw_images = enc.m_raw_images
          /\ enc'.m_compressed_output_buffer = enc.m_compressed_output_buffer
          /\ call'.op = "uhdr_encode" =>
               /\ call'.ret = enc.m_encode_call_status
               /\ codec' = <<>>
               /\ fx' = <<>>]_vars

(* A repeated uhdr_encode() on a session whose first call reached the      *)
(* codec and to which an effect was added after sealing.                   *)
C3_RepeatedEncode ==
  /\ call.op = "uhdr_encode"
  /\ call.sailed
  /\ call.ret.error_code = UHDR_CODEC_OK
  /\ enc.m_compressed_output_buffer # NULL
  /\ Len(enc.m_effects) > 0

----------------------------------------------------------------------------
(* SpecDispatch: every combination of attached inputs, with and without    *)
(* effects (valid ones, a crop of odd width, a resize to width 0), a codec *)
(* that succeeds or fails and an editor helper that may return null.       *)

NullFirst == [at |-> 1, img |-> TRUE, other |-> FALSE]

NextDispatch ==
  \/ SetRawImage({Ptr(HdrImage), Ptr(SdrImage)}, {UHDR_HDR_IMG, UHDR_SDR_IMG}, {FALSE})
  \/ SetCompressedImage({Ptr(JpegImage)}, {UHDR_SDR_IMG, UHDR_BASE_IMG})
  \/ SetGainmapImage({Ptr(JpegImage)}, {Ptr(GainmapMetadata)})
  \/ AddEffectMirror({UHDR_MIRROR_VERTICAL})
  \/ AddEffectRotate({90})
  \/ AddEffectCrop({<<0, 8, 0, 8>>, <<0, 7, 0, 8>>})
  \/ AddEffectResize({<<8, 8>>, <<0, 8>>})
  \/ Encode({EncodeOk, EncodeError}, {NoNulls, NullFirst})
  \/ ResetEncoder

SpecDispatch == Init({"enc"}) /\ [][NextDispatch]_vars

(* C4: on its first call with no effects configured uhdr_encode() picks    *)
(* the codec path from the attached inputs: compressed BASE and GAIN_MAP   *)
(* give api 4; else raw HDR alone gives api 0, raw HDR + compressed SDR    *)
(* api 3, raw HDR + raw SDR api 1, raw HDR + raw SDR + compressed SDR      *)
(* api 2; every other combination returns UHDR_CODEC_INVALID_OPERATION     *)
(* and the codec is not invoked.                                           *)
C4_DispatchTable ==
  (call.op = "uhdr_encode" /\ ~call.sailed /\ Len(enc.m_effects) = 0) =>
    LET hdr == UHDR_HDR_IMG \in DOMAIN enc.m_raw_images
        sdr == UHDR_SDR_IMG \in DOMAIN enc.m_raw_images
        jpg == UHDR_SDR_IMG \in DOMAIN enc.m_compressed_images
        pair == /\ UHDR_BASE_IMG \in DOMAIN enc.m_compressed_images
                /\ UHDR_GAIN_MAP_IMG \in DOMAIN enc.m_compressed_images
        api == IF Len(codec) = 1 THEN codec[1].call.api ELSE -1
    IN /\ Len(codec) <= 1
       /\ pair => api = 4
       /\ (~pair /\ hdr /\ ~sdr /\ ~jpg) => api = 0
       /\ (~pair /\ hdr /\ ~sdr /\ jpg) => api = 3
       /\ (~pair /\ hdr /\ sdr /\ ~jpg) => api = 1
       /\ (~pair /\ hdr /\ sdr /\ jpg) => api = 2
       /\ (~pair /\ ~hdr) =>
            /\ codec = <<>>
            /\ call.ret.error_code = UHDR_CODEC_INVALID_OPERATION

(* A first uhdr_encode() that took the api 2 path.                         *)
C4_Api2Taken ==
  /\ call.op = "uhdr_encode"
  /\ ~call.sailed
  /\ Len(enc.m_effects) = 0
  /\ Len(codec) = 1
  /\ codec[1].call.api = 2
  /\ DOMAIN enc.m_compressed_images = {UHDR_SDR_IMG}

(* C5: whenever compressed BASE and GAIN_MAP are both attached and the     *)
(* effects list is non-empty, uhdr_encode() returns                        *)
(* UHDR_CODEC_INVALID_OPERATION, the codec is not invoked and there is no  *)
(* output buffer, whatever raw images are attached.  The code departs      *)
(* from this on a sealed session: uhdr_add_effect_* still adds (C1), and   *)
(* uhdr_encode() then returns the stored OK of the first call.             *)
C5_Api4EffectsRejected ==
  (/\ call.op = "uhdr_encode"
   /\ UHDR_BASE_IMG \in DOMAIN enc.m_compressed_images
   /\ UHDR_GAIN_MAP_IMG \in DOMAIN enc.m_compressed_images
   /\ Len(enc.m_effects) > 0) =>
    /\ call.ret.error_code = UHDR_CODEC_INVALID_OPERATION
    /\ codec = <<>>
    /\ enc.m_compressed_output_buffer = NULL

(* The call that seals an api 4 session with effects is rejected.          *)
C5_SealingCallRejected ==
  /\ call.op = "uhdr_encode"
  /\ ~call.sailed
  /\ UHDR_BASE_IMG \in DOMAIN enc.m_compressed_images
  /\ UHDR_GAIN_MAP_IMG \in DOMAIN enc.m_compressed_images
  /\ Len(enc.m_effects) > 0
  /\ call.ret = ErrorInfo(UHDR_CODEC_INVALID_OPERATION, EFFECTS_DETAIL)

(* C6: in the api 3 shape (raw HDR and compressed SDR, no raw SDR, not     *)
(* both compressed BASE and GAIN_MAP) uhdr_encode() with a non-empty       *)
(* effects list returns UHDR_CODEC_INVALID_OPERATION, applies no effect    *)
(* and does not invoke the codec.  The code departs from this on a sealed  *)
(* session, as for C5.                                                     *)
C6_Api3EffectsRejected ==
  (/\ call.op = "uhdr_encode"
   /\ UHDR_HDR_IMG \in DOMAIN enc.m_raw_images
   /\ UHDR_SDR_IMG \notin DOMAIN enc.m_raw_images
   /\ UHDR_SDR_IMG \in DOMAIN enc.m_compressed_images
   /\ ~(/\ UHDR_BASE_IMG \in DOMAIN enc.m_compressed_images
        /\ UHDR_GAIN_MAP_IMG \in DOMAIN enc.m_compressed_images)
   /\ Len(enc.m_effects) > 0) =>
    /\ call.ret.error_code = UHDR_CODEC_INVALID_OPERATION
    /\ fx = <<>>
    /\ codec = <<>>

(* The call that seals an api 3 session with effects is rejected.          *)
C6_SealingCallRejected ==
  /\ call.op = "uhdr_encode"
  /\ ~call.sailed
  /\ DOMAIN enc.m_raw_images = {UHDR_HDR_IMG}
  /\ DOMAIN enc.m_compressed_images = {UHDR_SDR_IMG}
  /\ Len(enc.m_effects) > 0
  /\ call.ret = ErrorInfo(UHDR_CODEC_INVALID_OPERATION, EFFECTS_DETAIL)

(* C7, as the code has it: on the uhdr_encode() that seals a session with  *)
(* a non-empty effects list, api 0 (raw HDR only) and api 1 (raw HDR + raw *)
(* SDR) run the effects pipeline over the attached raw images; when every  *)
(* effect was applied the codec is invoked once, on the images the         *)
(* pipeline left, and uhdr_encode() returns the codec's mapped status;     *)
(* when an effect fails the codec is not invoked and that failure is       *)
(* returned.  In api 2 (raw HDR + raw SDR + compressed SDR) the call       *)
(* returns UHDR_CODEC_INVALID_OPERATION ("image effects are not enabled    *)
(* for inputs with compressed intent"): no effect is applied, the raw      *)
(* images stay as they were and the codec is not invoked.                  *)
C7_EffectsThenCodec ==
  [][LET hdr == UHDR_HDR_IMG \in DOMAIN enc.m_raw_images
         sdr == UHDR_SDR_IMG \in DOMAIN enc.m_raw_images
         jpg == UHDR_SDR_IMG \in DOMAIN enc.m_compressed_images
         pair == /\ UHDR_BASE_IMG \in DOMAIN enc.m_compressed_images
                 /\ UHDR_GAIN_MAP_IMG \in DOMAIN enc.m_compressed_images
         applied == \A i \in 1..Len(fx') : fx'[i].status.error_code = UHDR_CODEC_OK
     IN (/\ call'.op = "uhdr_encode"
         /\ ~enc.m_sailed
         /\ Len(enc.m_effects) > 0
         /\ ~pair /\ hdr) =>
          /\ (sdr /\ jpg) =>
               /\ call'.ret = ErrorInfo(UHDR_CODEC_INVALID_OPERATION, EFFECTS_DETAIL)
               /\ fx' = <<>>
               /\ codec' = <<>>
               /\ enc'.m_raw_images = enc.m_raw_images
          /\ ~jpg =>
               /\ Len(fx') >= 1
               /\ fx'[1].before = enc.m_raw_images
               /\ applied =>
                    /\ Len(fx') = Len(enc.m_effects)
                    /\ Len(codec') = 1
                    /\ codec'[1].call.p010_image = Uncompressed(enc'.m_raw_images[UHDR_HDR_IMG])
                    /\ sdr => codec'[1].call.yuv420_image
                                = Uncompressed(enc'.m_raw_images[UHDR_SDR_IMG])
                    /\ call'.ret = map_internal_error_status_to_error_info(codec'[1].result.status)
               /\ ~applied =>
                    /\ codec' = <<>>
                    /\ call'.ret = fx'[Len(fx')].status]_vars

(* C7 as stated: api 0, api 1 and api 2 alike run the pipeline on the      *)
(* sealing uhdr_encode() and, every effect applied, go on to the codec.    *)
C7_PipelineInApi012 ==
  (/\ call.op = "uhdr_encode"
   /\ ~call.sailed
   /\ Len(enc.m_effects) > 0
   /\ UHDR_HDR_IMG \in DOMAIN enc.m_raw_images
   /\ ~(/\ UHDR_BASE_IMG \in DOMAIN enc.m_compressed_images
        /\ UHDR_GAIN_MAP_IMG \in DOMAIN enc.m_compressed_images)
   /\ (UHDR_SDR_IMG \in DOMAIN enc.m_compressed_images
         => UHDR_SDR_IMG \in DOMAIN enc.m_raw_images)) =>
    /\ Len(fx) >= 1
    /\ (\A i \in 1..Len(fx) : fx[i].status.error_code = UHDR_CODEC_OK) => Len(codec) = 1

(* A sealing uhdr_encode() in api 1 whose effect was applied to both raw   *)
(* images before the codec ran and succeeded.                              *)
C7_PipelineRan ==
  /\ call.op = "uhdr_encode"
  /\ ~call.sailed
  /\ call.ret.error_code = UHDR_CODEC_OK
  /\ DOMAIN enc.m_raw_images = {UHDR_HDR_IMG, UHDR_SDR_IMG}
  /\ DOMAIN enc.m_compressed_images = {}
  /\ Len(fx) = 1
  /\ fx[1].it.type = "rotate"
  /\ Len(codec) = 1
  /\ codec[1].call.p010_image.width = 8
  /\ codec[1].call.yuv420_image.height = 16

----------------------------------------------------------------------------
(* SpecDims: raw images of two sizes for both intents, effects that change *)
(* the size, editor helpers that may return null for either image.         *)

HdrSmall == RawImage(UHDR_IMG_FMT_32bppRGBA1010102, UHDR_CG_DISPLAY_P3, UHDR_CT_PQ, 8, 8)
SdrSmall == RawImage(UHDR_IMG_FMT_32bppRGBA8888, UHDR_CG_DISPLAY_P3, UHDR_CT_SRGB, 8, 8)
NullOther == [at |-> 1, img |-> FALSE, other |-> TRUE]

NextDims ==
  \/ SetRawImage({Ptr(HdrImage), Ptr(SdrImage), Ptr(HdrSmall), Ptr(SdrSmall)},
                 {UHDR_HDR_IMG, UHDR_SDR_IMG}, {FALSE, TRUE})
  \/ AddEffectMirror({UHDR_MIRROR_HORIZONTAL})
  \/ AddEffectRotate({90, 180})
  \/ AddEffectCrop({<<0, 8, 0, 8>>, <<2, 20, 0, 6>>})
  \/ AddEffectResize({<<8, 8>>, <<32, 8>>})
  \/ Encode({EncodeOk}, {NoNulls, NullFirst, NullOther})
  \/ ResetEncoder

SpecDims == Init({"enc"}) /\ [][NextDims]_vars

(* C9: whenever a raw HDR and a raw SDR image are both attached they have  *)
(* the same width and height; uhdr_enc_set_raw_image returns               *)
(* UHDR_CODEC_INVALID_PARAM and stores nothing when the new image differs  *)
(* in size from the attached image of the other intent; and the two        *)
(* images have equal sizes after every step of the effects pipeline.       *)
C9_RawSizesAgree ==
  [][LET other == IF call'.args[2] = UHDR_HDR_IMG THEN UHDR_SDR_IMG ELSE UHDR_HDR_IMG
         img == call'.args[1][1]
     IN /\ {UHDR_HDR_IMG, UHDR_SDR_IMG} \subseteq DOMAIN enc'.m_raw_images =>
             /\ enc'.m_raw_images[UHDR_HDR_IMG].w = enc'.m_raw_images[UHDR_SDR_IMG].w
             /\ enc'.m_raw_images[UHDR_HDR_IMG].h = enc'.m_raw_images[UHDR_SDR_IMG].h
        /\ \A i \in 1..Len(fx') :
             {UHDR_HDR_IMG, UHDR_SDR_IMG} \subseteq DOMAIN fx'[i].imgs =>
               /\ fx'[i].imgs[UHDR_HDR_IMG].w = fx'[i].imgs[UHDR_SDR_IMG].w
               /\ fx'[i].imgs[UHDR_HDR_IMG].h = fx'[i].imgs[UHDR_SDR_IMG].h
        /\ (/\ call'.op = "uhdr_enc_set_raw_image"
            /\ call'.args[2] \in {UHDR_HDR_IMG, UHDR_SDR_IMG}
            /\ other \in DOMAIN enc.m_raw_images
            /\ (img.w # enc.m_raw_images[other].w \/ img.h # enc.m_raw_images[other].h)) =>
             /\ call'.ret.error_code = UHDR_CODEC_INVALID_PARAM
             /\ enc' = enc]_vars

(* An SDR image of another size than the attached HDR image was refused    *)
(* for its size alone.                                                     *)
C9_MismatchRefused ==
  /\ call.op = "uhdr_enc_set_raw_image"
  /\ call.args[2] = UHDR_SDR_IMG
  /\ call.ret = ErrorInfo(UHDR_CODEC_INVALID_PARAM, "image resolutions mismatch")
  /\ DOMAIN enc.m_raw_images = {UHDR_HDR_IMG}
  /\ call.args[1][1].w # enc.m_raw_images[UHDR_HDR_IMG].w

----------------------------------------------------------------------------
(* SpecRaw: uhdr_enc_set_raw_image with every pairing of intent, pixel     *)
(* format and colour transfer, on an image that is valid otherwise.        *)

RawFormats ==
  {UHDR_IMG_FMT_24bppYCbCrP010, UHDR_IMG_FMT_32bppRGBA1010102, UHDR_IMG_FMT_12bppYCbCr420,
   UHDR_IMG_FMT_32bppRGBA8888, UHDR_IMG_FMT_64bppRGBAHalfFloat}

Transfers == {UHDR_CT_UNSPECIFIED, UHDR_CT_LINEAR, UHDR_CT_HLG, UHDR_CT_PQ, UHDR_CT_SRGB}

NextRaw ==
  \/ SetRawImage({Ptr(RawImage(fmt, UHDR_CG_BT_709, ct, 16, 8)) :
                    fmt \in RawFormats, ct \in Transfers},
                 {UHDR_HDR_IMG, UHDR_SDR_IMG}, {FALSE})
  \/ Encode({EncodeOk}, {NoNulls})
  \/ ResetEncoder

SpecRaw == Init({"enc"}) /\ [][NextRaw]_vars

(* C10: uhdr_enc_set_raw_image accepts an image only when its intent,      *)
(* pixel format and transfer go together: HDR with YCbCrP010 or            *)
(* RGBA1010102 and HLG, PQ or LINEAR; SDR with YCbCr420 or RGBA8888 and    *)
(* SRGB.  Every other combination returns UHDR_CODEC_INVALID_PARAM and     *)
(* stores nothing.  The code departs from this: the transfer is tested     *)
(* only for the two YCbCr formats, so the RGBA formats pass with any.      *)
C10_RawImageCombination ==
  [][LET img == call'.args[1][1]
         intent == call'.args[2]
         allowed ==
           \/ /\ intent = UHDR_HDR_IMG
              /\ img.fmt \in {UHDR_IMG_FMT_24bppYCbCrP010, UHDR_IMG_FMT_32bppRGBA1010102}
              /\ img.ct \in {UHDR_CT_HLG, UHDR_CT_PQ, UHDR_CT_LINEAR}
           \/ /\ intent = UHDR_SDR_IMG
              /\ img.fmt \in {UHDR_IMG_FMT_12bppYCbCr420, UHDR_IMG_FMT_32bppRGBA8888}
              /\ img.ct = UHDR_CT_SRGB
     IN (call'.op = "uhdr_enc_set_raw_image" /\ ~allowed) =>
          /\ call'.ret.error_code = UHDR_CODEC_INVALID_PARAM
          /\ enc' = enc]_vars

(* An HDR image in RGBA1010102 with the SRGB transfer was accepted.        *)
C10_SrgbHdrAccepted ==
  /\ call.op = "uhdr_enc_set_raw_image"
  /\ call.args[2] = UHDR_HDR_IMG
  /\ call.args[1][1].fmt = UHDR_IMG_FMT_32bppRGBA1010102
  /\ call.args[1][1].ct = UHDR_CT_SRGB
  /\ call.ret.error_code = UHDR_CODEC_OK
  /\ enc.m_raw_images[UHDR_HDR_IMG].ct = UHDR_CT_SRGB

----------------------------------------------------------------------------
(* SpecLatch: an encoder or a decoder session driven into every failure of *)
(* uhdr_encode(), uhdr_dec_probe() and uhdr_decode(), with the result      *)
(* retrievers called in every state.                                       *)

GoodFile == UhdrFile(JPEGR_NO_ERROR, TRUE, 16, 8, 4, 2, GainmapMetadata)
NoGainmapFile ==
  UhdrFile(ERROR_JPEGR_GAIN_MAP_IMAGE_NOT_FOUND, TRUE, 16, 8, 0, 0, GainmapMetadata)
BadXmpFile == UhdrFile(JPEGR_NO_ERROR, FALSE, 16, 8, 4, 2, GainmapMetadata)

(* What JpegR::decodeJPEGR hands back.                                     *)
DecodeDone == [status |-> JPEGR_NO_ERROR, colorGamut |-> ULTRAHDR_COLORGAMUT_BT709]
DecodeFailed == [status |-> ERROR_JPEGR_DECODE_ERROR,
                 colorGamut |-> ULTRAHDR_COLORGAMUT_UNSPECIFIED]

NextLatch ==
  \/ SetRawImage({Ptr(HdrImage)}, {UHDR_HDR_IMG}, {FALSE})
  \/ SetCompressedImage({Ptr(JpegImage)}, {UHDR_SDR_IMG})
  \/ Encode({EncodeOk, EncodeError}, {NoNulls})
  \/ ResetEncoder
  \/ DecSetImage({Ptr(UhdrImage(TRUE, 100, 100, file)) :
                    file \in {GoodFile, NoGainmapFile, BadXmpFile}})
  \/ DecSetOutImgFormat({UHDR_IMG_FMT_32bppRGBA8888})
  \/ DecSetOutColorTransfer({UHDR_CT_SRGB})
  \/ DecSetOutMaxDisplayBoost({20})
  \/ Probe
  \/ Decode({DecodeDone, DecodeFailed}, {NoNulls})
  \/ ResetDecoder
  \/ AddEffectCrop({<<0, 8, 0, 8>>, <<8, 0, 0, 8>>})
  \/ Retrieve
  \/ IsUhdrImage({NULL, Ptr(GoodFile), Ptr(NoGainmapFile), Ptr(BadXmpFile)}, {100})

SpecLatch == Init({"enc", "dec"}) /\ [][NextLatch]_vars

(* What a retriever returns when it has nothing to give.                   *)
Sentinel(name) ==
  IF name \in {"uhdr_dec_get_image_width", "uhdr_dec_get_image_height",
               "uhdr_dec_get_gainmap_width", "uhdr_dec_get_gainmap_height"}
  THEN -1
  ELSE NULL

(* C8, as the code has it: a failure latches the operation that failed.    *)
(* Until the next reset, once uhdr_encode() has returned an error every    *)
(* uhdr_encode() returns that error and uhdr_get_encoded_stream() returns  *)
(* null; once uhdr_dec_probe() has returned an error every                 *)
(* uhdr_dec_probe() and uhdr_decode() returns that error and every decoder *)
(* retriever returns its sentinel; once uhdr_decode() has returned an      *)
(* error every uhdr_decode() returns that error and the decoded-image and  *)
(* gain-map-image retrievers return null.  (A failed uhdr_decode() after a *)
(* successful probe leaves uhdr_dec_probe() and the probe's retrievers     *)
(* answering as before.)                                                   *)
C8_FailureLatchesItsOperation ==
  /\ latched.uhdr_encode # <<>> =>
       /\ call.op = "uhdr_encode" => call.ret = latched.uhdr_encode[1]
       /\ call.op \in EncRetrievers => call.ret = Sentinel(call.op)
  /\ latched.uhdr_dec_probe # <<>> =>
       /\ call.op \in {"uhdr_dec_probe", "uhdr_decode"} => call.ret = latched.uhdr_dec_probe[1]
       /\ call.op \in ProbeRetrievers \cup DecodeRetrievers => call.ret = Sentinel(call.op)
  /\ latched.uhdr_decode # <<>> =>
       /\ call.op = "uhdr_decode" => call.ret = latched.uhdr_decode[1]
       /\ call.op \in DecodeRetrievers => call.ret = Sentinel(call.op)

(* C8 as stated: once any of the three has returned an error, none of them *)
(* returns OK and no retriever returns a result until the next reset.      *)
C8_FailureLatchesSession ==
  (latched # NoLatch) =>
    /\ call.op \in {"uhdr_encode", "uhdr_dec_probe", "uhdr_decode"} =>
         call.ret.error_code # UHDR_CODEC_OK
    /\ call.op \in EncRetrievers \cup ProbeRetrievers \cup DecodeRetrievers =>
         call.ret = Sentinel(call.op)

(* uhdr_decode() repeated on a session sealed by a decode that failed      *)
(* after a successful probe.                                               *)
C8_RepeatedFailedDecode ==
  /\ call.op = "uhdr_decode"
  /\ call.sailed
  /\ latched.uhdr_dec_probe = <<>>
  /\ latched.uhdr_decode # <<>>
  /\ call.ret = latched.uhdr_decode[1]
  /\ call.ret.error_code = UHDR_CODEC_UNKNOWN_ERROR

----------------------------------------------------------------------------
(* Raw images of every size class: odd, below the minimum, at the limits   *)
(* and above the maximum, with the effects that change sizes once          *)
(* uhdr_encode() runs: a crop and a resize to less than the minimum, and a *)
(* resize to 32768 x 32768, six bytes a pixel of which are more than 2^32. *)

Widths == {6, 7, 8, 16, kMaxWidth, kMaxWidth + 2}
Heights == {6, 8, 9, kMaxHeight, kMaxHeight + 2}

NextSize ==
  \/ SetRawImage({Ptr(RawImage(UHDR_IMG_FMT_24bppYCbCrP010, UHDR_CG_BT_2100, UHDR_CT_HLG, w, h)) :
                    w \in Widths, h \in Heights}, {UHDR_HDR_IMG}, {FALSE})
  \/ SetRawImage({Ptr(RawImage(UHDR_IMG_FMT_32bppRGBA8888, UHDR_CG_BT_709, UHDR_CT_SRGB, w, h)) :
                    w \in Widths, h \in Heights}, {UHDR_SDR_IMG}, {FALSE})
  \/ AddEffectCrop({<<0, 4, 0, 4>>})
  \/ AddEffectResize({<<2, 2>>, <<32768, 32768>>})
  \/ Encode({EncodeOk}, {NoNulls})
  \/ ResetEncoder

SpecSize == Init({"enc"}) /\ [][NextSize]_vars

(* C11: uhdr_enc_set_raw_image returns UHDR_CODEC_INVALID_PARAM and leaves *)
(* m_raw_images as it was whenever the width or the height of the image is *)
(* odd, below kMinWidth / kMinHeight or above kMaxWidth / kMaxHeight; and  *)
(* while the encoder is configurable (m_sailed false) every image in       *)
(* m_raw_images has even dimensions within the limits.                     *)
C11_RawDimensionsChecked ==
  [][LET img == call'.args[1][1]
         bad(i) == \/ i.w % 2 # 0 \/ i.h % 2 # 0
                   \/ i.w < kMinWidth \/ i.h < kMinHeight
                   \/ i.w > kMaxWidth \/ i.h > kMaxHeight
     IN /\ (call'.op = "uhdr_enc_set_raw_image" /\ bad(img)) =>
             /\ call'.ret.error_code = UHDR_CODEC_INVALID_PARAM
             /\ enc'.m_raw_images = enc.m_raw_images
        /\ ~enc'.m_sailed => \A k \in DOMAIN enc'.m_raw_images : ~bad(enc'.m_raw_images[k])]_vars

(* An image above the maximum was refused while another image was held.    *)
C11_OversizeRefused ==
  /\ call.op = "uhdr_enc_set_raw_image"
  /\ call.args[1][1].w > kMaxWidth
  /\ call.ret.error_code = UHDR_CODEC_INVALID_PARAM
  /\ ~enc.m_sailed
  /\ DOMAIN enc.m_raw_images = {UHDR_HDR_IMG, UHDR_SDR_IMG}

----------------------------------------------------------------------------
(* Gain-map metadata on both sides of every check, NaN included.  The gain *)
(* map of uhdr_enc_set_gainmap_image has 100 bytes, the image offered to   *)
(* uhdr_enc_set_compressed_image for the gain-map intent has 50.           *)

NextGainmap ==
  \/ SetGainmapImage({Ptr(JpegImage)},
       {Ptr(Metadata(maxb, minb, gamma, osdr, ohdr, capmin, capmax)) :
          maxb \in {10, 40}, minb \in {20}, gamma \in {0, 10, NaN},
          osdr \in {-1, 0}, ohdr \in {-1, 0}, capmin \in {5, 10}, capmax \in {5, 40}})
  \/ SetCompressedImage({Ptr(JpegImage)}, {UHDR_BASE_IMG})
  \/ SetCompressedImage({Ptr(CompressedImage(TRUE, 50, 50, UHDR_CG_BT_709))}, {UHDR_GAIN_MAP_IMG})
  \/ Encode({EncodeOk}, {NoNulls})
  \/ ResetEncoder

SpecGainmap == Init({"enc"}) /\ [][NextGainmap]_vars

(* C12: on a configurable encoder and with a valid compressed image,       *)
(* uhdr_enc_set_gainmap_image returns UHDR_CODEC_OK exactly when the       *)
(* metadata has max_content_boost >= min_content_boost, gamma > 0,         *)
(* offset_sdr >= 0, offset_hdr >= 0, hdr_capacity_max >= hdr_capacity_min  *)
(* and hdr_capacity_min >= 1; otherwise it returns                         *)
(* UHDR_CODEC_INVALID_PARAM and stores neither the image nor the metadata. *)
(* The code departs from this: its checks are the negated comparisons,     *)
(* which a NaN field passes.                                               *)
C12_GainmapMetadataChecked ==
  [][LET m == call'.args[2][1]
         satisfied == /\ FLessEq(m.min_content_boost, m.max_content_boost)
                      /\ FLess(0, m.gamma)
                      /\ FLessEq(0, m.offset_sdr)
                      /\ FLessEq(0, m.offset_hdr)
                      /\ FLessEq(m.hdr_capacity_min, m.hdr_capacity_max)
                      /\ FLessEq(10, m.hdr_capacity_min)
     IN (call'.op = "uhdr_enc_set_gainmap_image" /\ ~enc.m_sailed) =>
          IF satisfied
          THEN call'.ret = g_no_error
          ELSE /\ call'.ret.error_code = UHDR_CODEC_INVALID_PARAM
               /\ enc' = enc]_vars

(* Metadata whose gamma is NaN was stored.                                 *)
C12_NanGammaStored ==
  /\ call.op = "uhdr_enc_set_gainmap_image"
  /\ call.ret = g_no_error
  /\ enc.m_metadata.gamma = NaN
  /\ UHDR_GAIN_MAP_IMG \in DOMAIN enc.m_compressed_images

----------------------------------------------------------------------------
(* Quality factors inside and outside [0, 100] for every intent.           *)

NextQuality ==
  \/ SetQuality({-1, 0, 50, 100, 101},
                {UHDR_HDR_IMG, UHDR_SDR_IMG, UHDR_BASE_IMG, UHDR_GAIN_MAP_IMG})
  \/ SetRawImage({Ptr(HdrImage)}, {UHDR_HDR_IMG}, {FALSE})
  \/ Encode({EncodeOk, EncodeError}, {NoNulls})
  \/ ResetEncoder

SpecQuality == Init({"enc"}) /\ [][NextQuality]_vars

(* C13: m_quality always holds a value in [0, 100] for each of             *)
(* UHDR_HDR_IMG, UHDR_SDR_IMG, UHDR_BASE_IMG and UHDR_GAIN_MAP_IMG; after  *)
(* uhdr_create_encoder and after uhdr_reset_encoder the values are 95, 95, *)
(* 95 and kMapCompressQualityDefault; uhdr_enc_set_quality with a quality  *)
(* outside [0, 100] returns UHDR_CODEC_INVALID_PARAM and leaves m_quality  *)
(* as it was.                                                              *)
C13_QualityMap ==
  [][LET intents == {UHDR_HDR_IMG, UHDR_SDR_IMG, UHDR_BASE_IMG, UHDR_GAIN_MAP_IMG}
         total(q) == DOMAIN q = intents /\ \A k \in intents : q[k] \in 0..100
         defaults(q) == /\ q[UHDR_HDR_IMG] = 95 /\ q[UHDR_SDR_IMG] = 95
                        /\ q[UHDR_BASE_IMG] = 95
                        /\ q[UHDR_GAIN_MAP_IMG] = kMapCompressQualityDefault
     IN /\ total(enc.m_quality) /\ total(enc'.m_quality)
        /\ call = NoCall => defaults(enc.m_quality)
        /\ call'.op = "uhdr_reset_encoder" => defaults(enc'.m_quality)
        /\ (call'.op = "uhdr_enc_set_quality" /\ call'.args[1] \notin 0..100) =>
             /\ call'.ret.error_code = UHDR_CODEC_INVALID_PARAM
             /\ enc'.m_quality = enc.m_quality]_vars

(* A quality above 100 was refused after another quality had been set.     *)
C13_OutOfRangeRefused ==
  /\ call.op = "uhdr_enc_set_quality"
  /\ call.args[1] = 101
  /\ call.ret.error_code = UHDR_CODEC_INVALID_PARAM
  /\ enc.m_quality[UHDR_GAIN_MAP_IMG] = 0
  /\ enc.m_quality[UHDR_HDR_IMG] = 100

----------------------------------------------------------------------------
(* Every configuration call of both handles, with arguments it accepts and *)
(* arguments it refuses, before and after the sealing call.                *)

NextFrame ==
  \/ SetRawImage({Ptr(HdrImage), NULL}, {UHDR_HDR_IMG}, {FALSE, TRUE})
  \/ SetCompressedImage({Ptr(JpegImage), Ptr(CompressedImage(TRUE, 100, 50, UHDR_CG_BT_709))},
                        {UHDR_SDR_IMG})
  \/ SetGainmapImage({Ptr(JpegImage)}, {Ptr(GainmapMetadata), NULL})
  \/ SetQuality({50, 101}, {UHDR_BASE_IMG})
  \/ SetExifData({Ptr(ExifBlock), NULL})
  \/ SetOutputFormat({UHDR_CODEC_JPG, "UHDR_CODEC_HEIF"})
  \/ SetGainmapScaleFactor({2})
  \/ SetUsingMultiChannelGainmap({TRUE})
  \/ AddEffectMirror({UHDR_MIRROR_HORIZONTAL, "UHDR_MIRROR_NONE"})
  \/ AddEffectRotate({90, 45})
  \/ Encode({EncodeOk}, {NoNulls})
  \/ ResetEncoder
  \/ DecSetImage({Ptr(UhdrImage(TRUE, 100, 100, GoodFile)), Ptr(UhdrImage(FALSE, 100, 100, GoodFile))})
  \/ DecSetOutImgFormat({UHDR_IMG_FMT_32bppRGBA8888, UHDR_IMG_FMT_12bppYCbCr420})
  \/ DecSetOutColorTransfer({UHDR_CT_SRGB, UHDR_CT_UNSPECIFIED})
  \/ DecSetOutMaxDisplayBoost({20, 5})
  \/ Probe
  \/ Decode({DecodeDone}, {NoNulls})
  \/ ResetDecoder

SpecFrame == Init({"enc", "dec"}) /\ [][NextFrame]_vars

(* C14: a configuration call of the encoder or of the decoder that returns *)
(* a status other than UHDR_CODEC_OK leaves the handle exactly as it was:  *)
(* the images, the preferences, the metadata, m_effects, m_sailed,         *)
(* m_probed and the stored statuses.                                       *)
C14_FailedConfigCallChangesNothing ==
  [][(/\ call'.op \in EncConfigCalls \cup
                      {"uhdr_dec_set_image", "uhdr_dec_set_out_img_format",
                       "uhdr_dec_set_out_color_transfer", "uhdr_dec_set_out_max_display_boost"}
      /\ call'.ret.error_code # UHDR_CODEC_OK) =>
       (enc' = enc /\ dec' = dec)]_vars

(* uhdr_dec_set_image was refused on a probed decoder that holds an image. *)
C14_SetImageRefusedAfterProbe ==
  /\ call.op = "uhdr_dec_set_image"
  /\ call.args[1] # NULL /\ call.args[1][1].data
  /\ call.ret.error_code = UHDR_CODEC_INVALID_OPERATION
  /\ dec.m_probed
  /\ dec.m_uhdr_compressed_img # NULL

----------------------------------------------------------------------------
(* Compressed images under every intent.                                   *)

NextIntent ==
  \/ SetCompressedImage({Ptr(JpegImage)},
                        {UHDR_HDR_IMG, UHDR_SDR_IMG, UHDR_BASE_IMG, UHDR_GAIN_MAP_IMG})
  \/ SetRawImage({Ptr(HdrImage)}, {UHDR_HDR_IMG}, {FALSE})
  \/ Encode({EncodeOk, EncodeError}, {NoNulls})
  \/ ResetEncoder

SpecIntent == Init({"enc"}) /\ [][NextIntent]_vars

(* C15: uhdr_enc_set_compressed_image with an intent other than            *)
(* UHDR_HDR_IMG, UHDR_SDR_IMG or UHDR_BASE_IMG returns                     *)
(* UHDR_CODEC_INVALID_PARAM and leaves m_compressed_images as it was.  The *)
(* code departs from this: the status its intent test fills is dropped,    *)
(* and the call returns what the shared helper answers.                    *)
C15_CompressedIntentChecked ==
  [][(/\ call'.op = "uhdr_enc_set_compressed_image"
      /\ call'.args[2] \notin {UHDR_HDR_IMG, UHDR_SDR_IMG, UHDR_BASE_IMG}) =>
       /\ call'.ret.error_code = UHDR_CODEC_INVALID_PARAM
       /\ enc'.m_compressed_images = enc.m_compressed_images]_vars

(* A compressed image was stored under UHDR_GAIN_MAP_IMG by                *)
(* uhdr_enc_set_compressed_image.                                          *)
C15_GainmapIntentStored ==
  /\ call.op = "uhdr_enc_set_compressed_image"
  /\ call.args[2] = UHDR_GAIN_MAP_IMG
  /\ call.ret = g_no_error
  /\ UHDR_GAIN_MAP_IMG \in DOMAIN enc.m_compressed_images

----------------------------------------------------------------------------
(* The decoder with every accepted output format and output transfer.      *)

NextFormat ==
  \/ DecSetImage({Ptr(UhdrImage(TRUE, 100, 100, GoodFile)),
                  Ptr(UhdrImage(TRUE, 100, 100, BadXmpFile))})
  \/ DecSetOutImgFormat({UHDR_IMG_FMT_32bppRGBA8888, UHDR_IMG_FMT_64bppRGBAHalfFloat,
                         UHDR_IMG_FMT_32bppRGBA1010102})
  \/ DecSetOutColorTransfer({UHDR_CT_HLG, UHDR_CT_PQ, UHDR_CT_LINEAR, UHDR_CT_SRGB})
  \/ Probe
  \/ Decode({DecodeDone, DecodeFailed}, {NoNulls})
  \/ Retrieve
  \/ ResetDecoder

SpecFormat == Init({"dec"}) /\ [][NextFormat]_vars

(* C16: when the probe has succeeded, the uhdr_decode() that seals the     *)
(* decoder takes the output format from the table (HLG, RGBA1010102)       *)
(* -> HDR_HLG, (PQ, RGBA1010102) -> HDR_PQ, (LINEAR, RGBAHalfFloat) ->     *)
(* HDR_LINEAR, (SRGB, RGBA8888) -> SDR and hands it to the codec; for      *)
(* every other pair each uhdr_decode() returns UHDR_CODEC_INVALID_PARAM,   *)
(* the codec's decodeJPEGR is not called, and uhdr_get_decoded_image and   *)
(* uhdr_get_gain_map_image return null.                                    *)
C16_OutputFormatTable ==
  [][LET pair == <<dec.m_output_ct, dec.m_output_fmt>>
         table == (<<UHDR_CT_HLG, UHDR_IMG_FMT_32bppRGBA1010102>> :> ULTRAHDR_OUTPUT_HDR_HLG)
               @@ (<<UHDR_CT_PQ, UHDR_IMG_FMT_32bppRGBA1010102>> :> ULTRAHDR_OUTPUT_HDR_PQ)
               @@ (<<UHDR_CT_LINEAR, UHDR_IMG_FMT_64bppRGBAHalfFloat>> :> ULTRAHDR_OUTPUT_HDR_LINEAR)
               @@ (<<UHDR_CT_SRGB, UHDR_IMG_FMT_32bppRGBA8888>> :> ULTRAHDR_OUTPUT_SDR)
         decodes == {i \in 1..Len(codec') : codec'[i].call.fn = "decodeJPEGR"}
     IN (/\ call'.op = "uhdr_decode"
         /\ dec'.m_probed /\ dec'.m_probe_call_status.error_code = UHDR_CODEC_OK) =>
          IF pair \in DOMAIN table
          THEN /\ ~dec.m_sailed => decodes # {}
               /\ \A i \in decodes : codec'[i].call.output_format = table[pair]
          ELSE /\ call'.ret.error_code = UHDR_CODEC_INVALID_PARAM
               /\ decodes = {}
               /\ uhdr_get_decoded_image(dec') = NULL
               /\ uhdr_get_gain_map_image(dec') = NULL]_vars

(* uhdr_decode() refused the pair (LINEAR, RGBA8888) after a good probe.   *)
C16_LinearRgba8888Refused ==
  /\ call.op = "uhdr_decode"
  /\ call.ret.error_code = UHDR_CODEC_INVALID_PARAM
  /\ dec.m_output_ct = UHDR_CT_LINEAR /\ dec.m_output_fmt = UHDR_IMG_FMT_32bppRGBA8888
  /\ dec.m_probe_call_status.error_code = UHDR_CODEC_OK
  /\ dec.m_sailed

----------------------------------------------------------------------------
(* C17: uhdr_dec_probe() is idempotent.  Once it has been called, every    *)
(* later uhdr_dec_probe() before uhdr_reset_decoder returns the status of  *)
(* the first call and does not run the parsers again (nor does the probe   *)
(* inside uhdr_decode()), and the dimension queries and the metadata       *)
(* retriever keep answering what they answered after the first call, also  *)
(* once uhdr_decode() has run.                                             *)
C17_ProbeIdempotent ==
  [][(kind = "dec" /\ dec.m_probed /\ call'.op # "uhdr_reset_decoder") =>
       /\ dec'.m_probe_call_status = dec.m_probe_call_status
       /\ call'.op = "uhdr_dec_probe" =>
            (call'.ret = dec.m_probe_call_status /\ codec' = <<>> /\ dec' = dec)
       /\ \A i \in 1..Len(codec') : codec'[i].call.fn # "getJPEGRInfo"
       /\ uhdr_dec_get_image_width(dec') = uhdr_dec_get_image_width(dec)
       /\ uhdr_dec_get_image_height(dec') = uhdr_dec_get_image_height(dec)
       /\ uhdr_dec_get_gainmap_width(dec') = uhdr_dec_get_gainmap_width(dec)
       /\ uhdr_dec_get_gainmap_height(dec') = uhdr_dec_get_gainmap_height(dec)
       /\ uhdr_dec_get_gain_map_metadata(dec') = uhdr_dec_get_gain_map_metadata(dec)]_vars

(* uhdr_dec_probe() answered OK again after a uhdr_decode() that cropped   *)
(* the decoded image.                                                      *)
C17_ProbeAfterDecode ==
  /\ call.op = "uhdr_dec_probe"
  /\ call.ret = g_no_error
  /\ dec.m_sailed
  /\ dec.m_decode_call_status = g_no_error
  /\ Len(dec.m_effects) > 0
  /\ Deref(dec.m_decoded_img_buffer).w # dec.m_img_wd

(* C18: uhdr_decode() runs uhdr_dec_probe() first.  When the probe has     *)
(* failed, also for want of an image, uhdr_decode() returns the probe's    *)
(* error as it is, m_sailed stays false, the decoded buffers are not       *)
(* allocated and the codec's decodeJPEGR is not called; and every call of  *)
(* decodeJPEGR is made on a decoder whose probe of an attached image has   *)
(* succeeded.                                                              *)
C18_DecodeProbesFirst ==
  [][LET decodes == {i \in 1..Len(codec') : codec'[i].call.fn = "decodeJPEGR"}
     IN /\ (call'.op = "uhdr_decode" /\ dec'.m_probe_call_status.error_code # UHDR_CODEC_OK) =>
             /\ dec'.m_probed
             /\ call'.ret = dec'.m_probe_call_status
             /\ ~dec'.m_sailed
             /\ dec'.m_decoded_img_buffer = NULL /\ dec'.m_gainmap_img_buffer = NULL
             /\ decodes = {}
        /\ decodes # {} =>
             /\ dec'.m_probed /\ dec'.m_probe_call_status = g_no_error
             /\ dec'.m_uhdr_compressed_img # NULL
             /\ Deref(dec'.m_uhdr_compressed_img).file.info = JPEGR_NO_ERROR
             /\ Deref(dec'.m_uhdr_compressed_img).file.xmp_ok]_vars

(* uhdr_decode() on a decoder without an image returned the probe's error. *)
C18_DecodeWithoutImage ==
  /\ call.op = "uhdr_decode"
  /\ call.ret.error_code = UHDR_CODEC_INVALID_OPERATION
  /\ dec.m_uhdr_compressed_img = NULL
  /\ dec.m_probed /\ ~dec.m_sailed

(* C19: once uhdr_decode() has set m_sailed, every later uhdr_decode()     *)
(* before uhdr_reset_decoder returns the stored m_decode_call_status, does *)
(* not call the codec, does not apply m_effects and leaves the decoded     *)
(* image and the gain-map image as they were, also when effects have been  *)
(* added since.                                                            *)
C19_DecodeIdempotent ==
  [][(call'.op = "uhdr_decode" /\ dec.m_sailed) =>
       /\ call'.ret = dec.m_decode_call_status
       /\ codec' = <<>>
       /\ fx' = <<>>
       /\ dec'.m_decoded_img_buffer = dec.m_decoded_img_buffer
       /\ dec'.m_gainmap_img_buffer = dec.m_gainmap_img_buffer
       /\ dec' = dec]_vars

(* uhdr_decode() was repeated after an effect had been added to a decoder  *)
(* that had decoded without effects.                                       *)
C19_RepeatedDecodeWithLateEffect ==
  /\ call.op = "uhdr_decode"
  /\ call.sailed
  /\ call.ret = g_no_error
  /\ Len(dec.m_effects) > 0
  /\ Deref(dec.m_decoded_img_buffer).w = dec.m_img_wd
  /\ Deref(dec.m_decoded_img_buffer).h = dec.m_img_ht

(* C20: the retrievers answer only when there is an answer.  The decoder's *)
(* dimension queries return -1 and its exif, icc and metadata retrievers   *)
(* null unless uhdr_dec_probe() has run, by itself or inside               *)
(* uhdr_decode(), and succeeded; uhdr_get_decoded_image and                *)
(* uhdr_get_gain_map_image return null unless uhdr_decode() has set        *)
(* m_sailed and returned OK; uhdr_get_encoded_stream returns null unless   *)
(* uhdr_encode() has returned OK, and a buffer whenever it has.  A handle  *)
(* comes to answer only by the call of the operation that returns OK.      *)
C20_RetrieversNeedSuccess ==
  [][LET ok(status) == status.error_code = UHDR_CODEC_OK
         probed(h) == h.m_probed /\ ok(h.m_probe_call_status)
         decoded(h) == h.m_sailed /\ ok(h.m_decode_call_status)
         encoded(h) == h.m_sailed /\ ok(h.m_encode_call_status)
     IN /\ (call'.op \in ProbeRetrievers /\ ~probed(dec')) => call'.ret = Sentinel(call'.op)
        /\ (call'.op \in DecodeRetrievers /\ ~decoded(dec')) => call'.ret = NULL
        /\ call'.op = "uhdr_get_encoded_stream" => (call'.ret # NULL <=> encoded(enc'))
        /\ (probed(dec') /\ ~probed(dec)) =>
             /\ call'.op \in {"uhdr_dec_probe", "uhdr_decode"}
             /\ call'.op = "uhdr_dec_probe" => ok(call'.ret)
        /\ (decoded(dec') /\ ~decoded(dec)) => (call'.op = "uhdr_decode" /\ ok(call'.ret))
        /\ (encoded(enc') /\ ~encoded(enc)) => (call'.op = "uhdr_encode" /\ ok(call'.ret))
        /\ (call'.op = "uhdr_encode" /\ ok(call'.ret)) =>
             (encoded(enc') /\ uhdr_get_encoded_stream(enc') # NULL)]_vars

(* uhdr_get_decoded_image answered null on a decoder whose probe had       *)
(* succeeded and whose uhdr_decode() had failed with the buffers           *)
(* allocated.                                                              *)
C20_NullAfterFailedDecode ==
  /\ call.op = "uhdr_get_decoded_image"
  /\ call.ret = NULL
  /\ dec.m_sailed
  /\ dec.m_probe_call_status = g_no_error
  /\ dec.m_decode_call_status.error_code # UHDR_CODEC_OK
  /\ dec.m_decoded_img_buffer # NULL

----------------------------------------------------------------------------
(* C21: uhdr_reset_decoder() on a decoder in any state (new, probed,       *)
(* sealed, failed) leaves it as created.  Right after the reset the four   *)
(* dimension queries return -1 and every other retriever returns null,     *)
(* m_probed and m_sailed are false, the input image, the decoded buffers,  *)
(* the effects list and the cached exif, icc, xmp and metadata are         *)
(* cleared, and uhdr_dec_set_image, uhdr_dec_set_out_img_format,           *)
(* uhdr_dec_set_out_color_transfer and uhdr_dec_set_out_max_display_boost  *)
(* with valid arguments return OK.                                         *)
C21_DecoderResetRestoresDefaults ==
  (kind = "dec" /\ call.op = "uhdr_reset_decoder") =>
    /\ \A name \in ProbeRetrievers \cup DecodeRetrievers : Retriever(name) = Sentinel(name)
    /\ ~dec.m_probed /\ ~dec.m_sailed
    /\ dec.m_uhdr_compressed_img = NULL
    /\ dec.m_decoded_img_buffer = NULL /\ dec.m_gainmap_img_buffer = NULL
    /\ dec.m_effects = <<>>
    /\ dec.m_exif = <<>> /\ dec.m_icc = <<>>
    /\ dec.m_base_xmp = <<>> /\ dec.m_gainmap_xmp = <<>>
    /\ dec.m_metadata = Metadata(0, 0, 0, 0, 0, 0, 0)
    /\ dec.m_probe_call_status = g_no_error /\ dec.m_decode_call_status = g_no_error
    /\ uhdr_dec_set_image(dec, Ptr(UhdrImage(TRUE, 100, 100, GoodFile))).status = g_no_error
    /\ uhdr_dec_set_out_img_format(dec, UHDR_IMG_FMT_32bppRGBA8888).status = g_no_error
    /\ uhdr_dec_set_out_color_transfer(dec, UHDR_CT_SRGB).status = g_no_error
    /\ uhdr_dec_set_out_max_display_boost(dec, 20).status = g_no_error

(* uhdr_reset_decoder() on a decoder that uhdr_decode() had sealed.        *)
C21_ResetOfSealedDecoder ==
  /\ kind = "dec"
  /\ call.op = "uhdr_reset_decoder"
  /\ call.sailed
  /\ ~dec.m_sailed

----------------------------------------------------------------------------
(* C22: uhdr_reset_encoder() on an encoder in any state leaves it          *)
(* configurable with the defaults: quality 95 for HDR, SDR and BASE and    *)
(* kMapCompressQualityDefault for GAIN_MAP, output format JPEG, the        *)
(* default gain-map scale factor and multi-channel flag, no effects, no    *)
(* raw or compressed images, no exif, no output buffer and a stored encode *)
(* status of OK; configuration calls with valid arguments then return OK.  *)
C22_EncoderResetRestoresDefaults ==
  (kind = "enc" /\ call.op = "uhdr_reset_encoder") =>
    /\ ~enc.m_sailed
    /\ DOMAIN enc.m_quality =
         {UHDR_HDR_IMG, UHDR_SDR_IMG, UHDR_BASE_IMG, UHDR_GAIN_MAP_IMG}
    /\ \A intent \in {UHDR_HDR_IMG, UHDR_SDR_IMG, UHDR_BASE_IMG} : enc.m_quality[intent] = 95
    /\ enc.m_quality[UHDR_GAIN_MAP_IMG] = kMapCompressQualityDefault
    /\ enc.m_output_format = UHDR_CODEC_JPG
    /\ enc.m_gainmap_scale_factor = kMapDimensionScaleFactorDefault
    /\ enc.m_use_multi_channel_gainmap = kUseMultiChannelGainMapDefault
    /\ enc.m_effects = <<>>
    /\ enc.m_raw_images = <<>> /\ enc.m_compressed_images = <<>>
    /\ enc.m_exif = <<>>
    /\ enc.m_compressed_output_buffer = NULL
    /\ uhdr_get_encoded_stream(enc) = NULL
    /\ enc.m_encode_call_status = g_no_error
    /\ uhdr_enc_set_raw_image(enc, Ptr(HdrImage), UHDR_HDR_IMG, FALSE).status = g_no_error
    /\ uhdr_enc_set_compressed_image(enc, Ptr(JpegImage), UHDR_SDR_IMG).status = g_no_error
    /\ uhdr_enc_set_gainmap_image(enc, Ptr(JpegImage), Ptr(GainmapMetadata)).status = g_no_error
    /\ uhdr_enc_set_quality(enc, 50, UHDR_BASE_IMG).status = g_no_error
    /\ uhdr_enc_set_exif_data(enc, Ptr(ExifBlock)).status = g_no_error
    /\ uhdr_enc_set_output_format(enc, UHDR_CODEC_JPG).status = g_no_error

(* uhdr_reset_encoder() on an encoder that uhdr_encode() had sealed.       *)
C22_ResetOfSealedEncoder ==
  /\ kind = "enc"
  /\ call.op = "uhdr_reset_encoder"
  /\ call.sailed
  /\ ~enc.m_sailed

----------------------------------------------------------------------------
(* C23: once uhdr_decode() has sealed a decoder, every configuration call  *)
(* on it (uhdr_dec_set_image, uhdr_dec_set_out_img_format,                 *)
(* uhdr_dec_set_out_color_transfer, uhdr_dec_set_out_max_display_boost,    *)
(* uhdr_add_effect_mirror, _rotate, _crop, _resize) returns                *)
(* UHDR_CODEC_INVALID_OPERATION and leaves the decoder, its effects list   *)
(* included, as it was.                                                    *)
C23_SealedDecoderConfigRejected ==
  [][(/\ kind = "dec"
      /\ dec.m_sailed
      /\ call'.op \in {"uhdr_dec_set_image", "uhdr_dec_set_out_img_format",
                       "uhdr_dec_set_out_color_transfer",
                       "uhdr_dec_set_out_max_display_boost", "uhdr_add_effect_mirror",
                       "uhdr_add_effect_rotate", "uhdr_add_effect_crop",
                       "uhdr_add_effect_resize"})
     => (/\ call'.ret.error_code = UHDR_CODEC_INVALID_OPERATION
         /\ dec' = dec)]_vars

(* uhdr_add_effect_crop() on a sealed decoder returned OK and the effects  *)
(* list grew.                                                              *)
C23_SealedDecoderEffectsGrew ==
  /\ kind = "dec"
  /\ call.op = "uhdr_add_effect_crop"
  /\ call.sailed
  /\ dec.m_sailed
  /\ call.ret = g_no_error
  /\ Len(dec.m_effects) = 1

----------------------------------------------------------------------------
----------------------------------------------------------------------------
(* C25: is_uhdr_image(data, size) returns 1 exactly when                   *)
(* uhdr_dec_set_image() of the bytes on a newly created decoder and        *)
(* uhdr_dec_probe() on it both return OK, and 0 otherwise; on every path   *)
(* it releases its decoder exactly once, as its last call, and the live    *)
(* encoder and decoder sessions are left as they were.                     *)
C25_IsUhdrImage ==
  [][call'.op = "is_uhdr_image" =>
       LET data == call'.args[1]
           size == call'.args[2]
           img == [data |-> data # NULL, data_sz |-> size, capacity |-> size,
                   file |-> IF data = NULL THEN <<>> ELSE Deref(data),
                   cg |-> UHDR_CG_UNSPECIFIED, ct |-> UHDR_CT_UNSPECIFIED,
                   range |-> UHDR_CR_UNSPECIFIED]
           attached == uhdr_dec_set_image(uhdr_create_decoder, Ptr(img))
           calls == call'.ret.calls
       IN /\ call'.ret.value \in {0, 1}
          /\ call'.ret.value = 1 <=>
               /\ attached.status.error_code = UHDR_CODEC_OK
               /\ uhdr_dec_probe(attached.h).status.error_code = UHDR_CODEC_OK
          /\ Cardinality({i \in DOMAIN calls : calls[i] = "uhdr_release_decoder"}) = 1
          /\ calls[Len(calls)] = "uhdr_release_decoder"
          /\ enc' = enc /\ dec' = dec /\ latched' = latched]_vars

(* is_uhdr_image() returned 0 because the probe of its own decoder failed, *)
(* while the live decoder is a probed one.                                 *)
C25_ProbeFailedInside ==
  /\ call.op = "is_uhdr_image"
  /\ call.ret.value = 0
  /\ call.args[1] # NULL
  /\ call.ret.calls = <<"uhdr_create_decoder", "uhdr_dec_set_image", "uhdr_dec_probe",
                        "uhdr_release_decoder">>
  /\ kind = "dec"
  /\ dec.m_probed

----------------------------------------------------------------------------
(* Effect pipelines: sessions that hold several effects, of every type,    *)
(* with arguments that pass and arguments that fail, and helper results    *)
(* that come back null at any position of the list.                        *)

(* The longest effects list a pipeline session is driven to.               *)
MaxPipeline == 2

(* uhdr_add_effect_mirror, _rotate, _crop or _resize, by the type of it,   *)
(* on a session that holds fewer than max effects.                         *)
AddEffect(max, effects) ==
  /\ Len(Live.m_effects) < max
  /\ \E it \in effects :
       \E r \in {CASE it.type = "mirror" -> uhdr_add_effect_mirror(Live, it.m_direction)
                   [] it.type = "rotate" -> uhdr_add_effect_rotate(Live, it.m_degree)
                   [] it.type = "crop" ->
                        uhdr_add_effect_crop(Live, it.m_left, it.m_right, it.m_top, it.m_bottom)
                   [] it.type = "resize" ->
                        uhdr_add_effect_resize(Live, it.m_width, it.m_height)} :
         /\ IF kind = "enc" THEN enc' = r.h /\ dec' = dec ELSE dec' = r.h /\ enc' = enc
         /\ Observe(CASE it.type = "mirror" -> "uhdr_add_effect_mirror"
                      [] it.type = "rotate" -> "uhdr_add_effect_rotate"
                      [] it.type = "crop" -> "uhdr_add_effect_crop"
                      [] it.type = "resize" -> "uhdr_add_effect_resize",
                    <<it>>, r.status)
         /\ codec' = <<>>
         /\ fx' = <<>>
         /\ UNCHANGED <<kind, latched>>

NextPipeline ==
  \/ SetRawImage({Ptr(HdrImage)}, {UHDR_HDR_IMG}, {FALSE})
  \/ SetRawImage({Ptr(SdrImage)}, {UHDR_SDR_IMG}, {FALSE})
  \/ DecSetImage({Ptr(UhdrImage(TRUE, 100, 100, GoodFile))})
  \/ AddEffect(MaxPipeline,
       {uhdr_rotate_effect_t(90), uhdr_rotate_effect_t(180),
        uhdr_mirror_effect_t(UHDR_MIRROR_HORIZONTAL)}
       \cup {uhdr_crop_effect_t(rect[1], rect[2], rect[3], rect[4]) :
               rect \in {<<0, 7, 0, 8>>, <<8, 0, 0, 8>>, <<-2, 20, 2, 6>>, <<2, 12, 0, 3>>,
                         <<1, 2, 0, 8>>}}
       \cup {uhdr_resize_effect_t(size[1], size[2]) :
               size \in {<<8, 4>>, <<0, 8>>, <<3, 8>>, <<-8, 4>>, <<-3, 4>>}})
  \/ Encode({EncodeOk},
            {NoNulls} \cup {[at |-> i, img |-> b, other |-> ~b] :
                              i \in 1..MaxPipeline, b \in BOOLEAN})
  \/ Decode({DecodeDone},
            {NoNulls} \cup {[at |-> i, img |-> b, other |-> ~b] :
                              i \in 1..MaxPipeline, b \in BOOLEAN})

SpecPipeline == Init({"enc", "dec"}) /\ [][NextPipeline]_vars

(* C26: the pipeline applies the effects in the order of the list and      *)
(* stops at the first one that fails.  On the uhdr_encode() or             *)
(* uhdr_decode() that runs it, the effects tried are a prefix of the list  *)
(* in list order, each working on the images its predecessor left; when    *)
(* effect k fails no later effect is tried, the images are those that      *)
(* effects 1..k-1 left and the call returns and stores the error of effect *)
(* k; when none fails every effect has been tried.  Each effect that       *)
(* succeeds changes the dimensions as its type says: rotate by 90 or 270   *)
(* swaps width and height, mirror and rotate by 180 keep them, crop sets   *)
(* them to the clamped extents and resize to its destination.              *)
C26_EffectsInOrderUntilFailure ==
  [][LET log == fx'
         k == Len(log)
         Ok(st) == st.error_code = UHDR_CODEC_OK
         Dim(it, w, h) ==
           CASE it.type = "rotate" -> IF it.m_degree = 180 THEN <<w, h>> ELSE <<h, w>>
             [] it.type = "mirror" -> <<w, h>>
             [] it.type = "crop" ->
                  <<Min(w, it.m_right) - Max(0, it.m_left), Min(h, it.m_bottom) - Max(0, it.m_top)>>
             [] it.type = "resize" -> <<it.m_width, it.m_height>>
         Prefix(effects, first) ==
           /\ k >= 1 /\ k <= Len(effects)
           /\ \A i \in 1..k : log[i].it = effects[i]
           /\ log[1].before = first
           /\ \A i \in 1..(k - 1) : Ok(log[i].status) /\ log[i + 1].before = log[i].imgs
           /\ Ok(log[k].status) => k = Len(effects)
     IN /\ (/\ kind = "enc" /\ call'.op = "uhdr_encode" /\ ~enc.m_sailed
            /\ Len(enc.m_effects) > 0 /\ EncApi(enc) \in {0, 1})
          => /\ Prefix(enc.m_effects, enc.m_raw_images)
             /\ \A i \in 1..k : \A key \in DOMAIN log[i].imgs :
                  Ok(log[i].status) =>
                    <<log[i].imgs[key].w, log[i].imgs[key].h>> =
                      Dim(log[i].it, log[i].before[key].w, log[i].before[key].h)
             /\ ~Ok(log[k].status) =>
                  /\ call'.ret = log[k].status
                  /\ enc'.m_encode_call_status = log[k].status
                  /\ enc'.m_raw_images = log[k].before
             /\ Ok(log[k].status) =>
                  \A key \in DOMAIN log[k].imgs :
                    /\ enc'.m_raw_images[key].w = log[k].imgs[key].w
                    /\ enc'.m_raw_images[key].h = log[k].imgs[key].h
        /\ (/\ kind = "dec" /\ call'.op = "uhdr_decode" /\ ~dec.m_sailed
            /\ Len(dec.m_effects) > 0
            /\ \E c \in 1..Len(codec') :
                 /\ codec'[c].call.fn = "decodeJPEGR"
                 /\ codec'[c].result.status = JPEGR_NO_ERROR)
          => /\ k >= 1 /\ k <= Len(dec.m_effects)
             /\ \A i \in 1..k : log[i].it = dec.m_effects[i]
             /\ <<log[1].before.img.w, log[1].before.img.h>> = <<dec'.m_img_wd, dec'.m_img_ht>>
             /\ <<log[1].before.gm.w, log[1].before.gm.h>> =
                  <<dec'.m_gainmap_wd, dec'.m_gainmap_ht>>
             /\ \A i \in 1..(k - 1) : Ok(log[i].status) /\ log[i + 1].before = log[i].imgs
             /\ Ok(log[k].status) => k = Len(dec.m_effects)
             /\ \A i \in 1..k :
                  Ok(log[i].status) =>
                    <<log[i].imgs.img.w, log[i].imgs.img.h>> =
                      Dim(log[i].it, log[i].before.img.w, log[i].before.img.h)
             /\ ~Ok(log[k].status) =>
                  /\ call'.ret = log[k].status
                  /\ dec'.m_decode_call_status = log[k].status
                  /\ dec'.m_decoded_img_buffer = Ptr(log[k].before.img)
                  /\ dec'.m_gainmap_img_buffer = Ptr(log[k].before.gm)
             /\ Ok(log[k].status) =>
                  /\ dec'.m_decoded_img_buffer = Ptr(log[k].imgs.img)
                  /\ dec'.m_gainmap_img_buffer = Ptr(log[k].imgs.gm)]_vars

(* uhdr_encode() on a list of two effects whose second failed: the first   *)
(* one, a rotation by 90, is in the images and the error is returned.      *)
C26_SecondEffectFailed ==
  /\ kind = "enc"
  /\ call.op = "uhdr_encode"
  /\ Len(fx) = 2
  /\ fx[1].it = uhdr_rotate_effect_t(90)
  /\ fx[2].status.error_code = UHDR_CODEC_INVALID_PARAM
  /\ call.ret = fx[2].status
  /\ enc.m_raw_images[UHDR_HDR_IMG].w = 8
  /\ enc.m_raw_images[UHDR_HDR_IMG].h = 16

(* C27: one effect changes the pair of images together or not at all.  For *)
(* every effect the pipeline tried: when it failed (its arguments were     *)
(* refused, or the helper gave back null for the image or for its          *)
(* companion) both images are the buffers they were before it, and they    *)
(* are what the session holds after the call; when it succeeded both       *)
(* images are the helper's results (for crop, both are cropped).           *)
C27_EffectAtomicOnBothImages ==
  [][\A i \in 1..Len(fx') :
       LET e == fx'[i]
           failed == e.status.error_code # UHDR_CODEC_OK
           New(src, dst_w, dst_h) ==
             CASE e.it.type = "rotate" -> apply_rotate(e.it, src)
               [] e.it.type = "mirror" -> apply_mirror(e.it, src)
               [] e.it.type = "resize" -> apply_resize(e.it, src, dst_w, dst_h)
           Cropped(src, rect) ==
             apply_crop(src, rect.left, rect.top, rect.right - rect.left, rect.bottom - rect.top)
       IN IF kind = "enc"
          THEN /\ failed =>
                    /\ e.imgs = e.before
                    /\ enc'.m_raw_images = e.before
               /\ ~failed =>
                    \A key \in DOMAIN e.before :
                      e.imgs[key] =
                        IF e.it.type = "crop" THEN Cropped(e.before[key], e.rect[1])
                        ELSE New(e.before[key], e.it.m_width, e.it.m_height)
          ELSE /\ failed =>
                    /\ e.imgs = e.before
                    /\ dec'.m_decoded_img_buffer = Ptr(e.before.img)
                    /\ dec'.m_gainmap_img_buffer = Ptr(e.before.gm)
               /\ ~failed =>
                    IF e.it.type = "crop"
                    THEN /\ e.imgs.img = Cropped(e.before.img, e.rect[1])
                         /\ e.imgs.gm = Cropped(e.before.gm, e.rect[2])
                    ELSE /\ e.imgs.img = New(e.before.img, e.it.m_width, e.it.m_height)
                         /\ e.imgs.gm =
                              New(e.before.gm,
                                  ScaleDown(e.it.m_width, e.before.img.w, e.before.gm.w),
                                  ScaleDown(e.it.m_height, e.before.img.h, e.before.gm.h))]_vars

(* A rotation by 90 on an encoder that holds both raw images failed on a   *)
(* null helper result, and both images are still 16 x 8.                   *)
C27_NullResultLeftBoth ==
  /\ kind = "enc"
  /\ call.op = "uhdr_encode"
  /\ Len(fx) = 1
  /\ fx[1].it = uhdr_rotate_effect_t(90)
  /\ fx[1].status.error_code = UHDR_CODEC_UNKNOWN_ERROR
  /\ UHDR_SDR_IMG \in DOMAIN enc.m_raw_images
  /\ enc.m_raw_images[UHDR_HDR_IMG].w = 16 /\ enc.m_raw_images[UHDR_HDR_IMG].h = 8
  /\ enc.m_raw_images[UHDR_SDR_IMG].w = 16 /\ enc.m_raw_images[UHDR_SDR_IMG].h = 8

(* C28: in the encoder a crop (left, right, top, bottom) is clamped to the *)
(* HDR image as the pipeline has it at that point: left' = max(0, left),   *)
(* right' = min(w, right), top' = max(0, top), bottom' = min(h, bottom).   *)
(* When right' - left' and bottom' - top' are both positive and even the   *)
(* effect succeeds and every raw image becomes (right' - left') x          *)
(* (bottom' - top'); otherwise uhdr_encode() returns                       *)
(* UHDR_CODEC_INVALID_PARAM and no image is cropped.                       *)
C28_EncoderCrop ==
  [][kind = "enc" =>
       \A i \in 1..Len(fx') :
         LET e == fx'[i]
             hdr == e.before[UHDR_HDR_IMG]
             left == IF e.it.m_left > 0 THEN e.it.m_left ELSE 0
             right == IF e.it.m_right < hdr.w THEN e.it.m_right ELSE hdr.w
             top == IF e.it.m_top > 0 THEN e.it.m_top ELSE 0
             bottom == IF e.it.m_bottom < hdr.h THEN e.it.m_bottom ELSE hdr.h
             wd == right - left
             ht == bottom - top
         IN e.it.type = "crop" =>
              IF wd > 0 /\ wd % 2 = 0 /\ ht > 0 /\ ht % 2 = 0
              THEN /\ e.status = g_no_error
                   /\ \A key \in DOMAIN e.imgs : e.imgs[key].w = wd /\ e.imgs[key].h = ht
                   /\ e.rect = <<[left |-> left, top |-> top, right |-> right, bottom |-> bottom]>>
              ELSE /\ e.status.error_code = UHDR_CODEC_INVALID_PARAM
                   /\ call'.ret.error_code = UHDR_CODEC_INVALID_PARAM
                   /\ e.imgs = e.before
                   /\ enc'.m_raw_images = e.before
                   /\ e.rect = <<>>]_vars

(* After a rotation by 90 the HDR image is 8 x 16, and the crop            *)
(* (-2, 20, 2, 6) was clamped to it: both raw images are 8 x 4.            *)
C28_CropClampedAfterRotate ==
  /\ kind = "enc"
  /\ call.op = "uhdr_encode"
  /\ call.ret = g_no_error
  /\ Len(fx) = 2
  /\ fx[1].it = uhdr_rotate_effect_t(90)
  /\ fx[2].it = uhdr_crop_effect_t(-2, 20, 2, 6)
  /\ fx[2].rect = <<[left |-> 0, top |-> 2, right |-> 8, bottom |-> 6]>>
  /\ UHDR_SDR_IMG \in DOMAIN enc.m_raw_images
  /\ \A key \in {UHDR_HDR_IMG, UHDR_SDR_IMG} :
       enc.m_raw_images[key].w = 8 /\ enc.m_raw_images[key].h = 4

(* C29: in the decoder a crop succeeds exactly when the rectangle clamped  *)
(* to the decoded image is non-empty (right > left and bottom > top) and   *)
(* the gain map's rectangle (left / wr, top / hr, right / wr, bottom / hr),*)
(* wr and hr the width and height ratios of image to gain map and each     *)
(* quotient cut to an integer, is non-empty too.  Then the image and the   *)
(* gain map are cropped to their rectangles, odd extents included;         *)
(* otherwise uhdr_decode() returns UHDR_CODEC_INVALID_PARAM and neither is *)
(* cropped.                                                                *)
C29_DecoderCrop ==
  [][kind = "dec" =>
       \A i \in 1..Len(fx') :
         LET e == fx'[i]
             disp == e.before.img
             gm == e.before.gm
             left == IF e.it.m_left > 0 THEN e.it.m_left ELSE 0
             right == IF e.it.m_right < disp.w THEN e.it.m_right ELSE disp.w
             top == IF e.it.m_top > 0 THEN e.it.m_top ELSE 0
             bottom == IF e.it.m_bottom < disp.h THEN e.it.m_bottom ELSE disp.h
             gm_left == (left * gm.w) \div disp.w
             gm_right == (right * gm.w) \div disp.w
             gm_top == (top * gm.h) \div disp.h
             gm_bottom == (bottom * gm.h) \div disp.h
         IN e.it.type = "crop" =>
              IF right > left /\ bottom > top /\ gm_right > gm_left /\ gm_bottom > gm_top
              THEN /\ e.status = g_no_error
                   /\ e.imgs.img.w = right - left /\ e.imgs.img.h = bottom - top
                   /\ e.imgs.gm.w = gm_right - gm_left /\ e.imgs.gm.h = gm_bottom - gm_top
              ELSE /\ e.status.error_code = UHDR_CODEC_INVALID_PARAM
                   /\ call'.ret.error_code = UHDR_CODEC_INVALID_PARAM
                   /\ e.imgs = e.before
                   /\ dec'.m_decoded_img_buffer = Ptr(e.before.img)
                   /\ dec'.m_gainmap_img_buffer = Ptr(e.before.gm)]_vars

(* uhdr_decode() with the crop (0, 7, 0, 8): the decoded image is 7 x 8,   *)
(* an odd width, and the gain map 1 x 2.                                   *)
C29_OddCropAccepted ==
  /\ kind = "dec"
  /\ call.op = "uhdr_decode"
  /\ call.ret = g_no_error
  /\ Len(fx) = 1
  /\ fx[1].it = uhdr_crop_effect_t(0, 7, 0, 8)
  /\ Deref(dec.m_decoded_img_buffer).w = 7 /\ Deref(dec.m_decoded_img_buffer).h = 8
  /\ Deref(dec.m_gainmap_img_buffer).w = 1 /\ Deref(dec.m_gainmap_img_buffer).h = 2

(* C30: in the encoder a resize (width, height) whose width and height are *)
(* not both positive and even, be it zero, odd or negative, makes          *)
(* uhdr_encode() return UHDR_CODEC_INVALID_PARAM, and the resize helper is *)
(* not called: no raw image is replaced.                                   *)
C30_EncoderResizeChecked ==
  [][kind = "enc" =>
       \A i \in 1..Len(fx') :
         LET e == fx'[i]
             good(n) == n > 0 /\ n % 2 = 0
         IN (e.it.type = "resize" /\ ~(good(e.it.m_width) /\ good(e.it.m_height))) =>
              /\ e.status.error_code = UHDR_CODEC_INVALID_PARAM
              /\ call'.ret.error_code = UHDR_CODEC_INVALID_PARAM
              /\ e.imgs = e.before
              /\ enc'.m_raw_images = e.before]_vars

(* uhdr_encode() with the resize (-8, 4): the destination passed the test  *)
(* and the helper was called with it.                                      *)
C30_NegativeResizeRan ==
  /\ kind = "enc"
  /\ call.op = "uhdr_encode"
  /\ Len(fx) = 1
  /\ fx[1].it = uhdr_resize_effect_t(-8, 4)
  /\ fx[1].status.error_code # UHDR_CODEC_INVALID_PARAM


(* C31: in the decoder a resize (width, height) is carried out only when   *)
(* the image destination and the gain map destination (width / wr,         *)
(* height / hr, truncated) are all positive; when one of the four is zero  *)
(* or negative uhdr_decode() returns UHDR_CODEC_INVALID_PARAM and the      *)
(* resize helper is not called: neither buffer is replaced.                *)
C31_DecoderResizeChecked ==
  [][kind = "dec" =>
       \A i \in 1..Len(fx') :
         LET e == fx'[i]
             dst_gm_w == ScaleDown(e.it.m_width, e.before.img.w, e.before.gm.w)
             dst_gm_h == ScaleDown(e.it.m_height, e.before.img.h, e.before.gm.h)
         IN (e.it.type = "resize"
               /\ ~(e.it.m_width > 0 /\ e.it.m_height > 0 /\ dst_gm_w > 0 /\ dst_gm_h > 0)) =>
              /\ e.status.error_code = UHDR_CODEC_INVALID_PARAM
              /\ call'.ret.error_code = UHDR_CODEC_INVALID_PARAM
              /\ e.imgs = e.before]_vars

(* uhdr_decode() with the resize (-8, 4) of a 16x8 image with a 4x2 gain   *)
(* map: the destinations -8x4 and -2x1 passed the test and the helper was  *)
(* called with them.                                                       *)
C31_NegativeDecoderResizeRan ==
  /\ kind = "dec"
  /\ call.op = "uhdr_decode"
  /\ Len(fx) = 1
  /\ fx[1].it = uhdr_resize_effect_t(-8, 4)
  /\ fx[1].status.error_code = UHDR_CODEC_OK
  /\ fx[1].imgs.gm.w = -2


(* C32 as stated: after every successful decoder effect the ratios         *)
(* image.w / gainmap.w and image.h / gainmap.h are the ratios that held    *)
(* before the effect, swapped by a rotation of 90 or 270 degrees.          *)
C32_AspectLocked ==
  [][kind = "dec" =>
       \A i \in 1..Len(fx') :
         LET e == fx'[i]
             a == e.before
             b == e.imgs
         IN e.status.error_code = UHDR_CODEC_OK =>
              IF e.it.type = "rotate" /\ e.it.m_degree \in {90, 270}
              THEN /\ b.img.w * a.gm.h = b.gm.w * a.img.h
                   /\ b.img.h * a.gm.w = b.gm.h * a.img.w
              ELSE /\ b.img.w * a.gm.w = b.gm.w * a.img.w
                   /\ b.img.h * a.gm.h = b.gm.h * a.img.h]_vars

(* C32: a successful rotate or mirror of the decoder keeps the two ratios  *)
(* (swapped by a rotation of 90 or 270 degrees).  A successful resize with *)
(* a positive destination of buffers of positive dimensions, and a         *)
(* successful crop, give the gain map the                                  *)
(* quotients of the image's destination or rectangle edges by the ratios,  *)
(* rounded down: the ratios are kept when those are multiples of the       *)
(* ratios, and otherwise the gain map is smaller than the ratio asks for.  *)
C32_GainMapFollowsImage ==
  [][kind = "dec" =>
       \A i \in 1..Len(fx') :
         LET e == fx'[i]
             a == e.before
             b == e.imgs
             RoundedDown(q, n, w, g) == q * w <= n * g /\ n * g < (q + 1) * w
             Multiple(n, w, g) == (n * g) % w = 0
         IN e.status.error_code = UHDR_CODEC_OK =>
              CASE e.it.type = "rotate" /\ e.it.m_degree \in {90, 270} ->
                     /\ b.img.w * a.gm.h = b.gm.w * a.img.h
                     /\ b.img.h * a.gm.w = b.gm.h * a.img.w
                [] e.it.type = "resize" ->
                     (/\ e.it.m_width > 0 /\ e.it.m_height > 0
                      /\ a.img.w > 0 /\ a.img.h > 0 /\ a.gm.w > 0 /\ a.gm.h > 0) =>
                       /\ b.img.w = e.it.m_width /\ b.img.h = e.it.m_height
                       /\ RoundedDown(b.gm.w, b.img.w, a.img.w, a.gm.w)
                       /\ RoundedDown(b.gm.h, b.img.h, a.img.h, a.gm.h)
                       /\ Multiple(b.img.w, a.img.w, a.gm.w) =>
                            b.img.w * a.gm.w = b.gm.w * a.img.w
                       /\ Multiple(b.img.h, a.img.h, a.gm.h) =>
                            b.img.h * a.gm.h = b.gm.h * a.img.h
                [] e.it.type = "crop" ->
                     LET r == e.rect[1]
                         g == e.rect[2]
                     IN /\ b.img.w = r.right - r.left /\ b.img.h = r.bottom - r.top
                        /\ b.gm.w = g.right - g.left /\ b.gm.h = g.bottom - g.top
                        /\ RoundedDown(g.left, r.left, a.img.w, a.gm.w)
                        /\ RoundedDown(g.right, r.right, a.img.w, a.gm.w)
                        /\ RoundedDown(g.top, r.top, a.img.h, a.gm.h)
                        /\ RoundedDown(g.bottom, r.bottom, a.img.h, a.gm.h)
                        /\ (Multiple(r.left, a.img.w, a.gm.w) /\ Multiple(r.right, a.img.w, a.gm.w)) =>
                             b.img.w * a.gm.w = b.gm.w * a.img.w
                        /\ (Multiple(r.top, a.img.h, a.gm.h) /\ Multiple(r.bottom, a.img.h, a.gm.h)) =>
                             b.img.h * a.gm.h = b.gm.h * a.img.h
                [] OTHER ->
                     /\ b.img.w * a.gm.w = b.gm.w * a.img.w
                     /\ b.img.h * a.gm.h = b.gm.h * a.img.h]_vars

(* uhdr_decode() with the crop (0, 7, 0, 8) of a 16x8 image with a 4x2     *)
(* gain map: the image is 7x8 and the gain map 1x2, seven image columns    *)
(* for one of the gain map where there were four.                          *)
C32_CropDriftedRatio ==
  /\ kind = "dec"
  /\ call.op = "uhdr_decode"
  /\ call.ret.error_code = UHDR_CODEC_OK
  /\ Len(fx) = 1
  /\ fx[1].it = uhdr_crop_effect_t(0, 7, 0, 8)
  /\ fx[1].before.img.w = 16 /\ fx[1].before.gm.w = 4
  /\ fx[1].imgs.img.w = 7 /\ fx[1].imgs.gm.w = 1


(* C33: for every effects list of an encoder with a raw SDR image the SDR  *)
(* buffer handed to the codec is one contiguous allocation: a successful   *)
(* crop leaves the SDR buffer non-contiguous, a successful rotate, mirror  *)
(* or resize leaves a new contiguous one, and the buffer the codec is      *)
(* given is contiguous also when the last effect is a crop.                *)
C33_SdrContiguousAtCodec ==
  [][(kind = "enc" /\ call'.op = "uhdr_encode" /\ ~call'.sailed) =>
       /\ \A i \in 1..Len(fx') :
            (fx'[i].status = g_no_error /\ UHDR_SDR_IMG \in DOMAIN fx'[i].imgs) =>
              fx'[i].imgs[UHDR_SDR_IMG].contiguous = (fx'[i].it.type # "crop")
       /\ \A j \in 1..Len(codec') :
            "yuv420_image" \in DOMAIN codec'[j].call =>
              /\ codec'[j].call.yuv420_image.contiguous
              /\ codec'[j].call.yuv420_image = Uncompressed(enc'.m_raw_images[UHDR_SDR_IMG])]_vars

(* uhdr_encode() of raw HDR and SDR images with the effects rotate 90,     *)
(* crop: the crop left the SDR buffer non-contiguous and the codec was     *)
(* given a contiguous one of the cropped size.                             *)
C33_TrailingCropRepaired ==
  /\ kind = "enc"
  /\ call.op = "uhdr_encode"
  /\ Len(fx) = 2
  /\ fx[1].it.type = "rotate"
  /\ fx[2].it.type = "crop"
  /\ fx[2].status = g_no_error
  /\ UHDR_SDR_IMG \in DOMAIN fx[2].imgs
  /\ ~fx[2].imgs[UHDR_SDR_IMG].contiguous
  /\ Len(codec) = 1
  /\ codec[1].call.yuv420_image.contiguous
  /\ codec[1].call.yuv420_image.width = fx[2].imgs[UHDR_SDR_IMG].w


(* C34: when uhdr_encode() reaches the codec with a raw HDR image (api 0   *)
(* to 3) the capacity of the output buffer is max(8192, w * h * 6) for the *)
(* width and height the HDR image has after the effects, the product taken *)
(* without wrapping at 2^32.  The product is held as [hi, lo] with lo      *)
(* below 2^16 and hi as large as it comes.                                 *)
C34_OutputCapacity ==
  (kind = "enc" /\ call.op = "uhdr_encode" /\ ~call.sailed) =>
    \A j \in 1..Len(codec) :
      codec[j].call.api \in 0..3 =>
        LET w == enc.m_raw_images[UHDR_HDR_IMG].w
            h == enc.m_raw_images[UHDR_HDR_IMG].h
            lo6 == ((w * h) % LIMB) * 6
            bytes == [hi |-> ((w * h) \div LIMB) * 6 + (lo6 \div LIMB), lo |-> lo6 % LIMB]
        IN codec[j].call.maxLength = U32Max(U32(8 * 1024), bytes)

(* uhdr_encode() of a raw HDR image with the resize (32768, 32768): the    *)
(* codec was given images of 2^30 pixels and an output buffer of 2^31      *)
(* bytes, the low 32 bits of 6 * 2^30.                                     *)
C34_CapacityWrapped ==
  /\ kind = "enc"
  /\ call.op = "uhdr_encode"
  /\ Len(fx) = 1
  /\ fx[1].it = uhdr_resize_effect_t(32768, 32768)
  /\ Len(codec) = 1
  /\ codec[1].call.p010_image.width = 32768
  /\ codec[1].call.p010_image.height = 32768
  /\ codec[1].call.maxLength = [hi |-> 32768, lo |-> 0]


C36_CodecMetadataValidated ==
  (kind = "enc" /\ call.op = "uhdr_encode" /\ codec # <<>> /\ codec[1].call.api = 4) =>
    LET m == codec[1].call.metadata
    IN /\ FLessEq(m.minContentBoost, m.maxContentBoost)
       /\ FLess(0, m.gamma)
       /\ FLessEq(0, m.offsetSdr)
       /\ FLessEq(0, m.offsetHdr)
       /\ FLessEq(10, m.hdrCapacityMin)
       /\ FLessEq(m.hdrCapacityMin, m.hdrCapacityMax)
       /\ codec[1].call.gainmap_image = Compressed(JpegImage)

(* uhdr_encode() on the API-4 path with a gain map attached by             *)
(* uhdr_enc_set_compressed_image: the codec was given the zeroed metadata  *)
(* of a new encoder.                                                       *)
C36_DefaultMetadataAtCodec ==
  /\ kind = "enc"
  /\ call.op = "uhdr_encode"
  /\ codec # <<>>
  /\ codec[1].call.api = 4
  /\ codec[1].call.gainmap_image.length = 50
  /\ codec[1].call.metadata.gamma = 0
  /\ codec[1].call.metadata.hdrCapacityMin = 0


(* C37: an encoder after uhdr_reset_encoder() cannot be told from a new    *)
(* one: whatever is called next gives the same statuses and the same       *)
(* inputs to the codec.  Every field of the handle is read by some call    *)
(* (m_metadata by uhdr_encode() on the API-4 path), so this is: after      *)
(* uhdr_reset_encoder() the handle holds what uhdr_create_encoder() makes. *)
C37_ResetEncoderIsNew ==
  (kind = "enc" /\ call.op = "uhdr_reset_encoder") => enc = uhdr_create_encoder

(* uhdr_reset_encoder() has left the metadata of an earlier                *)
(* uhdr_enc_set_gainmap_image() in the handle.                             *)
C37_MetadataSurvivedReset ==
  /\ kind = "enc"
  /\ call.op = "uhdr_reset_encoder"
  /\ enc.m_metadata = Metadata(40, 20, 10, 0, 0, 10, 40)
  /\ enc.m_metadata # uhdr_create_encoder.m_metadata
  /\ enc.m_compressed_images = uhdr_create_encoder.m_compressed_images


(* C38: for every effects list the raw HDR and SDR images that             *)
(* uhdr_encode() hands to the codec have even, positive width and height   *)
(* within [kMinWidth, kMaxWidth] and [kMinHeight, kMaxHeight], the limits  *)
(* of uhdr_enc_set_raw_image: no crop or resize takes them outside.        *)
C38_CodecImagesWithinLimits ==
  (kind = "enc" /\ call.op = "uhdr_encode" /\ ~call.sailed) =>
    \A j \in 1..Len(codec) :
      \A name \in {"p010_image", "yuv420_image"} \cap DOMAIN codec[j].call :
        LET img == codec[j].call[name]
        IN /\ img.width > 0 /\ img.height > 0
           /\ img.width % 2 = 0 /\ img.height % 2 = 0
           /\ img.width >= kMinWidth /\ img.width <= kMaxWidth
           /\ img.height >= kMinHeight /\ img.height <= kMaxHeight

(* uhdr_encode() of raw HDR and SDR images with the crop (0, 4, 0, 4): the *)
(* codec was given images of 4 x 4, below kMinWidth and kMinHeight.        *)
C38_CroppedBelowMinimum ==
  /\ kind = "enc"
  /\ call.op = "uhdr_encode"
  /\ Len(fx) = 1
  /\ fx[1].it = uhdr_crop_effect_t(0, 4, 0, 4)
  /\ Len(codec) = 1
  /\ "yuv420_image" \in DOMAIN codec[1].call
  /\ codec[1].call.p010_image.width = 4 /\ codec[1].call.p010_image.height = 4
  /\ codec[1].call.yuv420_image.width = 4 /\ codec[1].call.yuv420_image.height = 4


(* C39: every crop carried out stays inside the buffers it addresses,      *)
(* whatever its arguments and whatever effects came before.  In the        *)
(* encoder 0 <= left < right <= w and 0 <= top < bottom <= h for the HDR   *)
(* image and for the SDR image when there is one; in the decoder the       *)
(* image's rectangle lies within the decoded image and the gain map's      *)
(* rectangle within [0, gainmap.w] x [0, gainmap.h].  The cropped buffers  *)
(* have the size of their rectangles.                                      *)
C39_CropInsideBuffers ==
  [][\A i \in 1..Len(fx') :
       LET e == fx'[i]
           Inside(r, img) == /\ 0 <= r.left /\ r.left < r.right /\ r.right <= img.w
                             /\ 0 <= r.top /\ r.top < r.bottom /\ r.bottom <= img.h
           Sized(r, img) == img.w = r.right - r.left /\ img.h = r.bottom - r.top
       IN (e.it.type = "crop" /\ e.status = g_no_error) =>
            IF kind = "enc"
            THEN /\ Len(e.rect) = 1
                 /\ \A key \in DOMAIN e.before :
                      Inside(e.rect[1], e.before[key]) /\ Sized(e.rect[1], e.imgs[key])
            ELSE /\ Len(e.rect) = 2
                 /\ Inside(e.rect[1], e.before.img) /\ Sized(e.rect[1], e.imgs.img)
                 /\ Inside(e.rect[2], e.before.gm) /\ Sized(e.rect[2], e.imgs.gm)]_vars

(* uhdr_decode() with the effects rotate 90 and crop (-2, 20, 2, 6): the   *)
(* rectangle was clamped to the 8 x 16 image, (0, 2)-(8, 6), and the gain  *)
(* map's is (0, 0)-(2, 1) of its 2 x 4.                                    *)
C39_OversizedCropClamped ==
  /\ kind = "dec"
  /\ call.op = "uhdr_decode"
  /\ call.ret = g_no_error
  /\ Len(fx) = 2
  /\ fx[1].it = uhdr_rotate_effect_t(90)
  /\ fx[2].it = uhdr_crop_effect_t(-2, 20, 2, 6)
  /\ fx[2].status = g_no_error
  /\ fx[2].rect[1] = [left |-> 0, top |-> 2, right |-> 8, bottom |-> 6]
  /\ fx[2].rect[2] = [left |-> 0, top |-> 0, right |-> 2, bottom |-> 1]


(* C40 as stated: after a successful uhdr_decode() the four dimension      *)
(* queries return the dimensions of the buffers that                       *)
(* uhdr_get_decoded_image() and uhdr_get_gain_map_image() return, for      *)
(* every effects list.                                                     *)
C40_QueriesMatchBuffers ==
  (kind = "dec" /\ DecodeOk(dec)) =>
    /\ uhdr_dec_get_image_width(dec) = Deref(uhdr_get_decoded_image(dec)).w
    /\ uhdr_dec_get_image_height(dec) = Deref(uhdr_get_decoded_image(dec)).h
    /\ uhdr_dec_get_gainmap_width(dec) = Deref(uhdr_get_gain_map_image(dec)).w
    /\ uhdr_dec_get_gainmap_height(dec) = Deref(uhdr_get_gain_map_image(dec)).h

(* C40: after a successful uhdr_decode() the four dimension queries return *)
(* the dimensions uhdr_dec_probe() read from the attached file, whatever   *)
(* the effects list; the buffers of uhdr_get_decoded_image() and           *)
(* uhdr_get_gain_map_image() have the dimensions the effects left, which   *)
(* are those of the queries when no effect of the list changed a           *)
(* dimension.                                                              *)
C40_QueriesReportProbedFile ==
  (kind = "dec" /\ DecodeOk(dec)) =>
    LET file == Deref(dec.m_uhdr_compressed_img).file
        img == Deref(uhdr_get_decoded_image(dec))
        gm == Deref(uhdr_get_gain_map_image(dec))
        SameSize(a, b) == a.w = b.w /\ a.h = b.h
    IN /\ uhdr_dec_get_image_width(dec) = file.width
       /\ uhdr_dec_get_image_height(dec) = file.height
       /\ uhdr_dec_get_gainmap_width(dec) = file.gm_width
       /\ uhdr_dec_get_gainmap_height(dec) = file.gm_height
       /\ (call.op = "uhdr_decode" /\ ~call.sailed) =>
            /\ Len(fx) = Len(dec.m_effects)
            /\ Len(fx) > 0 =>
                 /\ fx[1].before.img.w = file.width /\ fx[1].before.img.h = file.height
                 /\ fx[1].before.gm.w = file.gm_width /\ fx[1].before.gm.h = file.gm_height
                 /\ SameSize(fx[Len(fx)].imgs.img, img) /\ SameSize(fx[Len(fx)].imgs.gm, gm)
            /\ (\A i \in 1..Len(fx) : /\ SameSize(fx[i].imgs.img, fx[i].before.img)
                                      /\ SameSize(fx[i].imgs.gm, fx[i].before.gm)) =>
                 /\ uhdr_dec_get_image_width(dec) = img.w
                 /\ uhdr_dec_get_image_height(dec) = img.h
                 /\ uhdr_dec_get_gainmap_width(dec) = gm.w
                 /\ uhdr_dec_get_gainmap_height(dec) = gm.h

(* uhdr_decode() of a 16x8 file with the effect rotate 90 has returned OK: *)
(* the width query answers 16 and the decoded buffer is 8 wide.            *)
C40_RotatedBufferOldWidth ==
  /\ kind = "dec"
  /\ call.op = "uhdr_decode"
  /\ DecodeOk(dec)
  /\ dec.m_effects = <<uhdr_rotate_effect_t(90)>>
  /\ uhdr_dec_get_image_width(dec) = 16
  /\ Deref(uhdr_get_decoded_image(dec)).w = 8
  /\ uhdr_dec_get_gainmap_width(dec) = 4
  /\ Deref(uhdr_get_gain_map_image(dec)).w = 2

============================================================================
